---- MODULE Spec2Model ----
(***************************************************************************)
(* Model of the cpa-sim pipeline engine (src/cpa_sim/pipeline.py), its     *)
(* stage registry, the LaserState data model and the stage transforms.     *)
(*                                                                         *)
(* Numerics.  A complex sample is a Gaussian integer <<re, im>>.  Pulse    *)
(* arrays have 1, 2 or 4 samples, for which the discrete Fourier transform *)
(* only needs the roots of unity 1, i, -1, -i and is therefore exact.      *)
(* Phases are counted in quarter turns (exp(i*phase) = i^q).  The 1/N of   *)
(* the inverse transform is an integer division, where the program rounds  *)
(* to the nearest floating-point number.                                   *)
(*                                                                         *)
(* Memory.  Python objects live in `heap`, a sequence of cells; a          *)
(* LaserState object is a cell holding the addresses of its five mutable   *)
(* components (pulse, beam, meta, metrics, artifacts).  Attribute          *)
(* assignment and dict.update write into the addressed cell, so aliasing   *)
(* between a stage's input and output is observable.                       *)
(*                                                                         *)
(* Metric keys are tuples of dot-separated segments:                       *)
(*   "cpa.amp.amp.gain_linear" is <<"cpa","amp","amp","gain_linear">>.     *)
(***************************************************************************)
EXTENDS Integers, Sequences, FiniteSets, TLC

\* Python's Optional: None is the empty tuple, a present value v is <<v>>
None == <<>>

Some(v) == <<v>>

Get(o) == o[1]

-----------------------------------------------------------------------------
(* Complex arithmetic on Gaussian integers *)

CAdd(a, b) == <<a[1] + b[1], a[2] + b[2]>>

CZero == <<0, 0>>

CScale(a, k) == <<a[1] * k, a[2] * k>>

CDivInt(a, n) == <<a[1] \div n, a[2] \div n>>

\* a plausible slip: the phase factor truncated to first order, 1 + i * q
RotQ_first_order(a, q) == <<a[1] - q * a[2], a[2] + q * a[1]>>

\* multiplication by exp(i * q * pi/2)
RotQ(a, q) ==
    LET r == q % 4 IN
    CASE r = 0 -> a
      [] r = 1 -> <<-a[2], a[1]>>
      [] r = 2 -> <<-a[1], -a[2]>>
      [] r = 3 -> <<a[2], -a[1]>>

\* |a|^2
Abs2(a) == a[1] * a[1] + a[2] * a[2]

Abs2Arr(x) == [i \in 1..Len(x) |-> Abs2(x[i])]

RECURSIVE CSumTo(_, _)
CSumTo(f, n) == IF n = 0 THEN CZero ELSE CAdd(f[n], CSumTo(f, n - 1))

RECURSIVE SumTo(_, _)
SumTo(f, n) == IF n = 0 THEN 0 ELSE f[n] + SumTo(f, n - 1)

Sum(x) == SumTo(x, Len(x))

RECURSIVE MaxTo(_, _)
MaxTo(f, n) == IF n = 1 THEN f[1] ELSE LET m == MaxTo(f, n - 1) IN IF f[n] > m THEN f[n] ELSE m

Max(x) == MaxTo(x, Len(x))

\* numpy.fft.fftshift: roll right by N // 2
fftshift(x) ==
    LET n == Len(x) IN [i \in 1..n |-> x[((i - 1 - (n \div 2)) % n) + 1]]

\* numpy.fft.ifftshift: roll left by N // 2
ifftshift(x) ==
    LET n == Len(x) IN [i \in 1..n |-> x[((i - 1 + (n \div 2)) % n) + 1]]

\* numpy.fft.fft for N in {1, 2, 4}: X[k] = sum_j x[j] * exp(-2 pi i j k / N)
fft(x) ==
    LET n == Len(x)
        step == 4 \div n
    IN [k \in 1..n |->
          CSumTo([j \in 1..n |-> RotQ(x[j], 4 - ((step * (j - 1) * (k - 1)) % 4))], n)]

\* numpy.fft.ifft: x[j] = (1/N) sum_k X[k] * exp(+2 pi i j k / N)
ifft(x) ==
    LET n == Len(x)
        step == 4 \div n
    IN [j \in 1..n |->
          CDivInt(CSumTo([k \in 1..n |-> RotQ(x[k], (step * (j - 1) * (k - 1)) % 4)], n), n)]

\* np.fft.fftshift(np.fft.fft(np.fft.ifftshift(field_t)))
ToFreq(field_t) == fftshift(fft(ifftshift(field_t)))

\* np.fft.fftshift(np.fft.ifft(np.fft.ifftshift(field_w)))
ToTime(field_w) == fftshift(ifft(ifftshift(field_w)))

-----------------------------------------------------------------------------
(* Bounds of the model *)

\* longest explicit stage list a configuration carries
MaxStages == 2

\* wall-clock instants datetime.now() may return
Times == {1, 2}

Seeds == {0}

\* peak powers of the generated pulse: 512 gives the amplitudes 1, 16, 16, 1
PeakPowers == {512}

-----------------------------------------------------------------------------
(* Configuration records: src/cpa_sim/models/config.py *)

\* RuntimeCfg
RuntimeCfg(seed) == [seed |-> seed]

\* PulseSpec: the fields that are validated or resolved, in declaration order
PulseSpecFields ==
    <<"shape", "amplitude", "avg_power_w", "pulse_energy_j", "peak_power_w", "width_fs",
      "intensity_autocorr_fwhm_fs", "center_wavelength_nm", "rep_rate_mhz", "n_samples",
      "time_window_fs">>

\* PulseSpec field defaults; times are in units that put the default pulse on a
\* four-sample grid (width 2, window 6 for the program's 100 fs and 2000 fs)
PulseSpecDefaults ==
    [shape |-> "gaussian", amplitude |-> 1, avg_power_w |-> None, pulse_energy_j |-> None,
     peak_power_w |-> None, width_fs |-> 2, intensity_autocorr_fwhm_fs |-> None,
     center_wavelength_nm |-> 1030, rep_rate_mhz |-> 1, n_samples |-> 4, time_window_fs |-> 6]

\* the message of the field validator that rejects kw[f], or None
PulseSpec_field_error(kw, f) ==
    IF f \notin DOMAIN kw THEN None
    ELSE CASE f = "rep_rate_mhz" ->
                IF kw[f] <= 0 THEN Some("PulseSpec.rep_rate_mhz must be > 0.") ELSE None
           [] f \in {"avg_power_w", "pulse_energy_j", "peak_power_w"} ->
                IF kw[f] # None /\ Get(kw[f]) < 0
                THEN Some("PulseSpec power/energy values must be >= 0.") ELSE None
           [] f = "width_fs" ->
                IF kw[f] <= 0 THEN Some("PulseSpec width values must be > 0.") ELSE None
           [] f = "intensity_autocorr_fwhm_fs" ->
                IF kw[f] # None /\ Get(kw[f]) <= 0
                THEN Some("PulseSpec width values must be > 0.") ELSE None
           [] OTHER -> None

\* the field validators, run on the supplied fields in declaration order; the
\* ValidationError lists every failure
PulseSpec_field_errors(kw) ==
    LET failing == SelectSeq(PulseSpecFields, LAMBDA f : PulseSpec_field_error(kw, f) # None)
    IN [i \in 1..Len(failing) |-> Get(PulseSpec_field_error(kw, failing[i]))]

\* the object pydantic builds from the keyword arguments kw
PulseSpec_object(kw) == (kw @@ PulseSpecDefaults) @@ ("model_fields_set" :> DOMAIN kw)

\* a plausible slip: the legacy amplitude is not counted among the power inputs
validate_exclusive_inputs_amplitude_free(kw) ==
    LET explicit_power_fields == {"avg_power_w", "pulse_energy_j", "peak_power_w"} \cap DOMAIN kw
        explicit_width_fields == {"width_fs", "intensity_autocorr_fwhm_fs"} \cap DOMAIN kw
    IN IF Cardinality(explicit_power_fields) > 1
         THEN [raised |-> TRUE, warnings |-> <<>>,
               errors |-> <<"Exactly one pulse normalization input may be explicitly set">>]
       ELSE IF Cardinality(explicit_width_fields) > 1
         THEN [raised |-> TRUE, warnings |-> <<>>,
               errors |-> <<"Only one pulse width input may be explicitly set">>]
       ELSE [raised |-> FALSE, warnings |-> <<>>, value |-> PulseSpec_object(kw)]

\* PulseSpec._validate_exclusive_inputs
validate_exclusive_inputs(kw) ==
    LET explicit_power_fields ==
            {"avg_power_w", "pulse_energy_j", "peak_power_w", "amplitude"} \cap DOMAIN kw
        warnings == IF explicit_power_fields = {"amplitude"}
                    THEN <<"DeprecationWarning: PulseSpec.amplitude is deprecated">> ELSE <<>>
        explicit_width_fields == {"width_fs", "intensity_autocorr_fwhm_fs"} \cap DOMAIN kw
    IN IF "amplitude" \in explicit_power_fields /\ Cardinality(explicit_power_fields) > 1
         THEN [raised |-> TRUE, warnings |-> <<>>,
               errors |-> <<"PulseSpec.amplitude cannot be set together">>]
       ELSE IF Cardinality(explicit_power_fields) > 1
         THEN [raised |-> TRUE, warnings |-> <<>>,
               errors |-> <<"Exactly one pulse normalization input may be explicitly set">>]
       ELSE IF Cardinality(explicit_width_fields) > 1
         THEN [raised |-> TRUE, warnings |-> warnings,
               errors |-> <<"Only one pulse width input may be explicitly set">>]
       ELSE [raised |-> FALSE, warnings |-> warnings, value |-> PulseSpec_object(kw)]

\* PulseSpec(**kw): field validators, then the model validator
PulseSpec(kw) ==
    IF PulseSpec_field_errors(kw) # <<>>
    THEN [raised |-> TRUE, warnings |-> <<>>, errors |-> PulseSpec_field_errors(kw)]
    ELSE validate_exclusive_inputs(kw)

\* PulseSpec.model_construct(**kw): the object without validation
PulseSpec_model_construct(kw) == PulseSpec_object(kw)

\* LaserGenCfg(spec=LaserSpec(pulse=pulse)) with the default beam
LaserGenCfgOf(pulse) ==
    [name |-> "laser_init", kind |-> "analytic",
     spec |-> [pulse |-> pulse, beam |-> [radius_mm |-> 1, m2 |-> 1]]]

\* LaserGenCfg with an explicit peak power on an n_samples grid of spacing 2
LaserGenCfg(peak_power_w, n_samples) ==
    LaserGenCfgOf(PulseSpec_object(("peak_power_w" :> Some(peak_power_w))
                                   @@ ("n_samples" :> n_samples)
                                   @@ ("time_window_fs" :> 2 * (n_samples - 1))))

\* PhaseOnlyDispersionCfg
PhaseOnlyDispersionCfg(name, gdd_fs2, tod_fs3, apply_to_pulse) ==
    [kind |-> "phase_only_dispersion", name |-> name, gdd_fs2 |-> gdd_fs2,
     tod_fs3 |-> tod_fs3, apply_to_pulse |-> apply_to_pulse]

\* TreacyGratingPairCfg.  lambda_over_d10 is 10 * wavelength / grating period,
\* sin_incidence10 is 10 * sin(incidence angle).
TreacyGratingPairCfg(name, lambda_over_d10, sin_incidence10, diffraction_order, apply_to_pulse) ==
    [kind |-> "treacy_grating_pair", name |-> name,
     lambda_over_d10 |-> lambda_over_d10, sin_incidence10 |-> sin_incidence10,
     separation_um |-> 1, diffraction_order |-> diffraction_order, n_passes |-> 2,
     include_tod |-> TRUE, apply_to_pulse |-> apply_to_pulse,
     override_gdd_fs2 |-> None, override_tod_fs3 |-> None]

\* FiberPhysicsCfg
FiberPhysicsCfg(loss_db_per_m, gamma_1_per_w_m) ==
    [length_m |-> 1, loss_db_per_m |-> loss_db_per_m, gamma_1_per_w_m |-> gamma_1_per_w_m,
     n2_m2_per_w |-> None, aeff_m2 |-> None]

\* ToyPhaseNumericsCfg
ToyPhaseNumericsCfg(nonlinear_phase_rad) ==
    [backend |-> "toy_phase", nonlinear_phase_rad |-> nonlinear_phase_rad]

\* WustGnlseNumericsCfg
WustGnlseNumericsCfg(grid_policy, resolution_override) ==
    [backend |-> "wust_gnlse", grid_policy |-> grid_policy,
     resolution_override |-> resolution_override]

\* FiberCfg
FiberCfg(name, physics, numerics) ==
    [kind |-> "fiber", name |-> name, physics |-> physics, numerics |-> numerics]

\* SimpleGainCfg
SimpleGainCfg(name, gain_linear) ==
    [kind |-> "simple_gain", name |-> name, gain_linear |-> gain_linear]

\* FiberAmpWrapCfg (power_out_w > 0 is enforced by its field validator)
FiberAmpWrapCfg(name, physics, numerics, power_out_w) ==
    [kind |-> "fiber_amp_wrap", name |-> name, physics |-> physics,
     numerics |-> numerics, power_out_w |-> power_out_w]

\* MetricsCfg
MetricsCfg == [name |-> "metrics", kind |-> "standard"]

\* the kinds the PipelineStageCfg discriminated union accepts
PipelineStageKinds ==
    {"treacy_grating_pair", "phase_only_dispersion", "fiber", "simple_gain", "fiber_amp_wrap"}

\* PipelineConfig; stages = None selects the stretcher/fiber/amp/compressor fields
PipelineConfig(seed, laser_gen, stages) ==
    [runtime |-> RuntimeCfg(seed),
     laser_gen |-> laser_gen,
     stretcher |-> PhaseOnlyDispersionCfg("stretcher", 0, 0, TRUE),
     fiber |-> FiberCfg("fiber", FiberPhysicsCfg(0, None), ToyPhaseNumericsCfg(0)),
     amp |-> SimpleGainCfg("amp", 1),
     compressor |-> TreacyGratingPairCfg("compressor", 12, 6, -1, TRUE),
     stages |-> stages,
     metrics |-> MetricsCfg]

-----------------------------------------------------------------------------
(* Python objects: src/cpa_sim/models/state.py *)

\* dict.update(new) and dict[k] = v
Update(d, new) == new @@ d

EmptyDict == <<>>

\* dict.get(k, default)
DictGet(d, k, default) == IF k \in DOMAIN d THEN d[k] ELSE default

\* dict.setdefault(k, v)
SetDefault(d, k, v) == IF k \in DOMAIN d THEN d ELSE (k :> v) @@ d

Parts == {"pulse", "beam", "meta", "metrics", "artifacts"}

\* the addresses a LaserState object refers to
PartAddrs(h, sid) == {h[sid][p] : p \in Parts}

\* the LaserState at address sid, read through its references
Val(h, sid) == [p \in Parts |-> h[h[sid][p]]]

\* LaserState(pulse=..., beam=..., meta=..., metrics=..., artifacts=...):
\* five fresh component cells and the object cell; the object is the last cell
NewState(h, v) ==
    LET b == Len(h) IN
    h \o <<v.pulse, v.beam, v.meta, v.metrics, v.artifacts,
           [pulse |-> b + 1, beam |-> b + 2, meta |-> b + 3,
            metrics |-> b + 4, artifacts |-> b + 5]>>

\* a plausible slip: the "copy" is the object itself
deepcopy_alias(h, sid) == [heap |-> h, sid |-> sid]

\* LaserState.deepcopy: copy.deepcopy(self)
deepcopy(h, sid) ==
    LET h1 == NewState(h, Val(h, sid)) IN [heap |-> h1, sid |-> Len(h1)]

\* out.<part>.<attr> = v, out.<part>.update(...): write into the addressed cell
SetPart(h, sid, p, v) == [h EXCEPT ![h[sid][p]] = v]

\* out.<part> = NewObject(...): rebind the attribute to a fresh cell
NewPart(h, sid, p, v) ==
    LET h1 == Append(h, v) IN [h1 EXCEPT ![sid] = [@ EXCEPT ![p] = Len(h1)]]

\* out.<part>.update(new): merge into the addressed dict
UpdatePart(h, sid, p, new) == SetPart(h, sid, p, Update(h[h[sid][p]], new))

\* out.pulse.field_t = v
SetFieldT(p, v) == [p EXCEPT !.field_t = v]

\* out.pulse.field_w = fftshift(fft(ifftshift(out.pulse.field_t)))
RefreshFieldW(p) == [p EXCEPT !.field_w = ToFreq(p.field_t)]

\* out.pulse.intensity_t = |out.pulse.field_t|^2
RefreshIntensity(p) == [p EXCEPT !.intensity_t = Abs2Arr(p.field_t)]

\* out.pulse.spectrum_w = |out.pulse.field_w|^2
RefreshSpectrum(p) == [p EXCEPT !.spectrum_w = Abs2Arr(p.field_w)]

\* PulseState
PulseState(grid, field_t, field_w, intensity_t, spectrum_w) ==
    [grid |-> grid, field_t |-> field_t, field_w |-> field_w,
     intensity_t |-> intensity_t, spectrum_w |-> spectrum_w]

\* PulseGrid
PulseGrid(t, w, dt, dw, center_wavelength_nm) ==
    [t |-> t, w |-> w, dt |-> dt, dw |-> dw, center_wavelength_nm |-> center_wavelength_nm]

\* a plausible slip: the run metadata is hashed too
hashable_repr_with_meta(v) ==
    [metrics |-> v.metrics, grid |-> v.pulse.grid, beam |-> v.beam,
     field_t |-> v.pulse.field_t, field_w |-> v.pulse.field_w,
     intensity_t |-> v.pulse.intensity_t, spectrum_w |-> v.pulse.spectrum_w,
     meta |-> v.meta]

\* LaserState.hashable_repr: digest of metrics, grid, beam and the four arrays
\* (the digest is modelled by its preimage; meta and artifacts are not hashed)
hashable_repr(v) ==
    [metrics |-> v.metrics, grid |-> v.pulse.grid, beam |-> v.beam,
     field_t |-> v.pulse.field_t, field_w |-> v.pulse.field_w,
     intensity_t |-> v.pulse.intensity_t, spectrum_w |-> v.pulse.spectrum_w]

\* RunProvenance.from_seed_and_hash: the run key digests seed, config hash and now
from_seed_and_hash(seed, config_hash, policy_hash, now) ==
    [run_id |-> <<"run", seed, config_hash, now>>,
     created_utc |-> now, seed |-> seed,
     config_hash |-> config_hash, policy_hash |-> policy_hash]

-----------------------------------------------------------------------------
(* Policy and plot emission: src/cpa_sim/utils.py *)

\* _policy_get
policy_get(policy, key, default) ==
    IF policy = None THEN default ELSE DictGet(Get(policy), key, default)

\* maybe_emit_stage_plots: returns the artifacts and the file system after the call.
\* env.matplotlib tells whether matplotlib.pyplot can be imported.
maybe_emit_stage_plots(stage_name, policy, env, fs) ==
    LET emit == policy_get(policy, "cpa.emit_stage_plots", FALSE)
                  \/ policy_get(policy, "emit_stage_plots", FALSE)
        out_dir == policy_get(policy, "cpa.stage_plot_dir", "artifacts/stage-plots")
        time_path == <<out_dir, stage_name, "time_intensity.svg">>
        spectrum_path == <<out_dir, stage_name, "spectrum.svg">>
    IN IF ~emit THEN [artifacts |-> EmptyDict, fs |-> fs]
       ELSE IF ~env.matplotlib THEN [artifacts |-> EmptyDict, fs |-> fs \cup {<<out_dir>>}]
       ELSE [artifacts |-> (<<stage_name, "plot_time_intensity">> :> time_path)
                            @@ (<<stage_name, "plot_spectrum">> :> spectrum_path),
             fs |-> fs \cup {<<out_dir>>, time_path, spectrum_path}]

-----------------------------------------------------------------------------
(* Stage results *)

\* StageResult(state=..., metrics=...) returned by a stage's process
StageResult(h, fs, sid, metrics) ==
    [raised |-> FALSE, heap |-> h, fs |-> fs, state |-> sid, metrics |-> metrics]

\* an exception leaving process; objects are left as they were when it was raised
Raise(h, fs, error) == [raised |-> TRUE, heap |-> h, fs |-> fs, error |-> error]

\* floor of the square root
RECURSIVE ISqrt(_)
ISqrt(x) ==
    IF x < 2 THEN x
    ELSE LET s == 2 * ISqrt(x \div 4) IN IF (s + 1) * (s + 1) <= x THEN s + 1 ELSE s

RECURSIVE Pow2(_)
Pow2(n) == IF n = 0 THEN 1 ELSE 2 * Pow2(n - 1)

\* float(np.sum(intensity) * dt)
EnergyAu(intensity, dt) == Sum(intensity) * dt

-----------------------------------------------------------------------------
(* Analytic pulse generator: src/cpa_sim/stages/laser_gen/analytic.py *)

\* np.linspace(-0.5 * window, 0.5 * window, n)
linspace(lo, hi, n) ==
    [k \in 1..n |-> IF n = 1 THEN lo ELSE lo + ((hi - lo) * (k - 1)) \div (n - 1)]

\* np.fft.fftshift(2 pi * np.fft.fftfreq(n, d=dt)), in units of half a frequency step
AngularFrequencyGrid(n) ==
    fftshift([k \in 1..n |-> IF k - 1 < (n + 1) \div 2 THEN 2 * (k - 1) ELSE 2 * (k - 1 - n)])

\* i0 * exp(-4 ln2 (t / width)^2) = i0 / 2^(4 t^2 / width^2)
GaussianIntensity(i0, t, width) == i0 \div Pow2((4 * t * t) \div (width * width))

\* i0 / cosh(t / t0)^2 with t0 = width / (2 acosh(sqrt 2)):
\* 4 E / (E + 1)^2 for E = exp(2 |t| / t0) = 2^(5.09 |t| / width)
SechIntensity(i0, t, width) ==
    LET E == Pow2((5 * (IF t < 0 THEN -t ELSE t)) \div width)
    IN (4 * E * i0) \div ((E + 1) * (E + 1))

\* _field_explicitly_set
field_explicitly_set(spec, field_name) ==
    "model_fields_set" \in DOMAIN spec /\ field_name \in spec.model_fields_set

\* resolve_intensity_fwhm_fs for the two shapes PulseSpec admits: the
\* autocorrelation width divided by sqrt(2) (gaussian) or multiplied by 0.648 (sech2)
resolve_intensity_fwhm_fs(pulse_spec) ==
    IF pulse_spec.intensity_autocorr_fwhm_fs # None
       /\ ~field_explicitly_set(pulse_spec, "width_fs")
    THEN IF pulse_spec.shape = "gaussian"
         THEN (1000 * Get(pulse_spec.intensity_autocorr_fwhm_fs)) \div 1414
         ELSE (648 * Get(pulse_spec.intensity_autocorr_fwhm_fs)) \div 1000
    ELSE pulse_spec.width_fs

\* rep_rate_hz, in the model's unit of repetition rate
rep_rate_hz(rep_rate_mhz) == rep_rate_mhz

\* resolve_pulse_energy_j
resolve_pulse_energy_j(pulse_spec) ==
    IF pulse_spec.pulse_energy_j # None THEN pulse_spec.pulse_energy_j
    ELSE IF pulse_spec.avg_power_w # None
      THEN Some(Get(pulse_spec.avg_power_w) \div rep_rate_hz(pulse_spec.rep_rate_mhz))
    ELSE None

\* peak_power_w_from_energy_j: energy * 2 sqrt(ln 2) / (width sqrt(pi)) for a
\* gaussian, energy * acosh(sqrt 2) / width for sech2, in thousandths
peak_power_w_from_energy_j(energy_j, width_fs, shape) ==
    IF width_fs <= 0
      THEN [raised |-> TRUE, error |-> "ValueError: width_fs must be > 0 to compute peak power."]
    ELSE IF shape = "gaussian"
      THEN [raised |-> FALSE, value |-> (energy_j * 939) \div (1000 * width_fs)]
    ELSE IF shape = "sech2"
      THEN [raised |-> FALSE, value |-> (energy_j * 881) \div (1000 * width_fs)]
    ELSE [raised |-> TRUE, error |-> "ValueError: Unknown pulse shape for peak-power conversion"]

\* a plausible slip: the legacy amplitude is consulted before the energy inputs
resolve_peak_power_w_amplitude_first(pulse_spec, width_fs) ==
    IF pulse_spec.peak_power_w # None
      THEN [raised |-> FALSE, value |-> Get(pulse_spec.peak_power_w)]
    ELSE IF field_explicitly_set(pulse_spec, "amplitude")
      THEN [raised |-> FALSE, value |-> pulse_spec.amplitude * pulse_spec.amplitude]
    ELSE IF resolve_pulse_energy_j(pulse_spec) # None
      THEN peak_power_w_from_energy_j(Get(resolve_pulse_energy_j(pulse_spec)), width_fs,
                                      pulse_spec.shape)
    ELSE [raised |-> FALSE, value |-> 1]

\* resolve_peak_power_w
resolve_peak_power_w(pulse_spec, width_fs) ==
    IF pulse_spec.peak_power_w # None
      THEN [raised |-> FALSE, value |-> Get(pulse_spec.peak_power_w)]
    ELSE IF resolve_pulse_energy_j(pulse_spec) # None
      THEN peak_power_w_from_energy_j(Get(resolve_pulse_energy_j(pulse_spec)), width_fs,
                                      pulse_spec.shape)
    ELSE IF field_explicitly_set(pulse_spec, "amplitude")
      THEN [raised |-> FALSE, value |-> pulse_spec.amplitude * pulse_spec.amplitude]
    ELSE IF pulse_spec.amplitude = 1
      THEN [raised |-> FALSE, value |-> 1]
    ELSE [raised |-> TRUE, error |-> "ValueError: Peak power could not be resolved."]

\* AnalyticLaserGenStage.process, lines 48-93: the generated pulse written to a
\* copy of the input state, with its metadata, metrics and plot artifacts
AnalyticLaserGenStage_record(cfg, c, new_pulse, width_fs_eff, peak_power_w, plots) ==
    LET pulse == cfg.spec.pulse
        out == c.sid
        pulse_energy_j == Sum(new_pulse.intensity_t) * new_pulse.grid.dt
        avg == IF pulse.rep_rate_mhz > 0
               THEN pulse_energy_j * rep_rate_hz(pulse.rep_rate_mhz) ELSE 0
        stage_metrics ==
            (<<"laser", "energy_au">> :> EnergyAu(new_pulse.intensity_t, new_pulse.grid.dt))
            @@ (<<"laser", "peak_intensity_au">> :> Max(new_pulse.intensity_t))
            @@ (<<"laser", "intensity_fwhm_fs">> :> width_fs_eff)
            @@ (<<"laser", "peak_power_w">> :> peak_power_w)
            @@ (<<"laser", "pulse_energy_j">> :> pulse_energy_j)
            @@ (IF pulse.rep_rate_mhz > 0 THEN (<<"laser", "avg_power_w">> :> avg) ELSE EmptyDict)
    IN StageResult(
         UpdatePart(
           UpdatePart(
             UpdatePart(
               NewPart(NewPart(c.heap, out, "pulse", new_pulse), out, "beam", cfg.spec.beam),
               out, "meta",
               ("reference" :> [intensity_t |-> new_pulse.intensity_t,
                                spectrum_w |-> new_pulse.spectrum_w])
               @@ ("rep_rate_mhz" :> pulse.rep_rate_mhz)
               @@ ("laser.intensity_fwhm_fs" :> width_fs_eff)
               @@ ("laser.peak_power_w" :> peak_power_w)
               @@ (IF pulse.intensity_autocorr_fwhm_fs # None
                   THEN ("laser.intensity_autocorr_fwhm_fs_input" :>
                            Get(pulse.intensity_autocorr_fwhm_fs))
                   ELSE EmptyDict)
               @@ ("laser.pulse_energy_j" :> pulse_energy_j)
               @@ (IF pulse.rep_rate_mhz > 0 THEN ("laser.avg_power_w" :> avg) ELSE EmptyDict)),
             out, "metrics", stage_metrics),
           out, "artifacts", plots.artifacts),
         plots.fs, out, stage_metrics)

\* AnalyticLaserGenStage.process, lines 34-46: the arrays of the pulse on grid t
AnalyticLaserGenStage_arrays(pulse, t, width_fs_eff, peak_power_w) ==
    RefreshSpectrum(RefreshIntensity(RefreshFieldW(
       PulseState(PulseGrid(t, AngularFrequencyGrid(Len(t)), t[2] - t[1],
                            AngularFrequencyGrid(Len(t))[2] - AngularFrequencyGrid(Len(t))[1],
                            pulse.center_wavelength_nm),
                  [k \in 1..Len(t) |->
                     <<ISqrt(IF pulse.shape = "gaussian"
                             THEN GaussianIntensity(peak_power_w, t[k], width_fs_eff)
                             ELSE SechIntensity(peak_power_w, t[k], width_fs_eff)), 0>>],
                  <<>>, <<>>, <<>>))))

\* AnalyticLaserGenStage.process, lines 33-93, once the grid and the width are known
AnalyticLaserGenStage_generate(cfg, h, fs, sid, policy, env, t, width_fs_eff, peak) ==
    IF peak.raised THEN Raise(h, fs, peak.error)
    ELSE IF t[2] - t[1] = 0 THEN Raise(h, fs, "ZeroDivisionError: float division by zero")
    ELSE AnalyticLaserGenStage_record(
            cfg, deepcopy(h, sid),
            AnalyticLaserGenStage_arrays(cfg.spec.pulse, t, width_fs_eff, peak.value),
            width_fs_eff, peak.value,
            maybe_emit_stage_plots(cfg.name, policy, env, fs))

\* AnalyticLaserGenStage.process; np.linspace rejects a negative sample count and
\* t[1] does not exist on a grid of fewer than two samples
AnalyticLaserGenStage_process(cfg, h, fs, sid, policy, env) ==
    IF cfg.spec.pulse.n_samples < 0
      THEN Raise(h, fs, "ValueError: Number of samples must be non-negative.")
    ELSE IF cfg.spec.pulse.n_samples < 2
      THEN Raise(h, fs, "IndexError: index 1 is out of bounds")
    ELSE AnalyticLaserGenStage_generate(
            cfg, h, fs, sid, policy, env,
            linspace(-(cfg.spec.pulse.time_window_fs \div 2),
                     cfg.spec.pulse.time_window_fs \div 2, cfg.spec.pulse.n_samples),
            resolve_intensity_fwhm_fs(cfg.spec.pulse),
            resolve_peak_power_w(cfg.spec.pulse, resolve_intensity_fwhm_fs(cfg.spec.pulse)))

-----------------------------------------------------------------------------
(* Simple gain amplifier: src/cpa_sim/stages/amp/simple_gain.py, utils.py *)

\* field_gain_from_power_gain: sqrt(max(gain_linear, 0))
field_gain_from_power_gain(gain_linear) == ISqrt(IF gain_linear > 0 THEN gain_linear ELSE 0)

\* a plausible slip: intensity_t is not refreshed after the field is scaled
SimpleGainStage_process_stale(cfg, h, fs, sid, policy, env) ==
    LET c == deepcopy(h, sid)
        out == c.sid
        p0 == c.heap[c.heap[out].pulse]
        gain == field_gain_from_power_gain(cfg.gain_linear)
        p4 == RefreshSpectrum(RefreshFieldW(
                 SetFieldT(p0, [k \in 1..Len(p0.field_t) |-> CScale(p0.field_t[k], gain)])))
        stage_metrics ==
            (<<cfg.name, "gain_linear">> :> cfg.gain_linear)
            @@ (<<cfg.name, "energy_au">> :> EnergyAu(p4.intensity_t, p4.grid.dt))
    IN StageResult(UpdatePart(SetPart(c.heap, out, "pulse", p4), out, "metrics", stage_metrics),
                   fs, out, stage_metrics)

\* SimpleGainStage.process
SimpleGainStage_process(cfg, h, fs, sid, policy, env) ==
    LET c == deepcopy(h, sid)
        out == c.sid
        p0 == c.heap[c.heap[out].pulse]
        gain == field_gain_from_power_gain(cfg.gain_linear)
        p4 == RefreshSpectrum(RefreshIntensity(RefreshFieldW(
                 SetFieldT(p0, [k \in 1..Len(p0.field_t) |-> CScale(p0.field_t[k], gain)]))))
        stage_metrics ==
            (<<cfg.name, "gain_linear">> :> cfg.gain_linear)
            @@ (<<cfg.name, "energy_au">> :> EnergyAu(p4.intensity_t, p4.grid.dt))
    IN StageResult(UpdatePart(SetPart(c.heap, out, "pulse", p4), out, "metrics", stage_metrics),
                   fs, out, stage_metrics)

-----------------------------------------------------------------------------
(* Free-space dispersion: src/cpa_sim/stages/free_space/treacy_grating.py *)

\* _phase_from_dispersion, in quarter turns:
\* -0.5 * gdd * domega^2 - (1/6) * tod * domega^3
phase_from_dispersion(omega, omega0, gdd_fs2, tod_fs3) ==
    LET domega == omega - omega0
    IN -((gdd_fs2 * domega * domega) \div 2) - ((tod_fs3 * domega * domega * domega) \div 6)

\* a plausible slip: the argument is clamped instead of raising
safe_asin_clamped(arg10) == [raised |-> FALSE]

\* _safe_asin: raises unless -1 <= arg <= 1 (arg10 is 10 * arg)
safe_asin(arg10) == [raised |-> (arg10 < -10 \/ arg10 > 10)]

\* _compute_treacy_metrics; all ratios in tenths, their squares in hundredths
compute_treacy_metrics(cfg) ==
    LET m == cfg.diffraction_order
        r10 == cfg.lambda_over_d10
        s10 == cfg.sin_incidence10
        littrow_arg10 == r10 \div 2
        diff_arg10 == (-m) * r10 - s10
        gdd_bracket100 == 100 - diff_arg10 * diff_arg10
        tod_den100 == 100 - (r10 - s10) * (r10 - s10)
        tod_num100 == 100 + r10 * s10 - s10 * s10
        gdd == -((cfg.n_passes * m * m * cfg.separation_um * r10 * r10 * 1000)
                   \div (gdd_bracket100 * ISqrt(gdd_bracket100)))
        tod == -((3 * tod_num100 * gdd) \div tod_den100)
        out_gdd == IF cfg.override_gdd_fs2 # None THEN Get(cfg.override_gdd_fs2) ELSE gdd
        computed_tod == IF cfg.include_tod THEN tod ELSE 0
        out_tod == IF cfg.override_tod_fs3 # None THEN Get(cfg.override_tod_fs3) ELSE computed_tod
    IN IF safe_asin(littrow_arg10).raised
         THEN [raised |-> TRUE, error |-> "ValueError: Invalid asin domain for littrow angle"]
       ELSE IF safe_asin(diff_arg10).raised
         THEN [raised |-> TRUE, error |-> "ValueError: Invalid asin domain for diffraction angle"]
       ELSE IF gdd_bracket100 <= 0
         THEN [raised |-> TRUE, error |-> "ValueError: GDD radical argument must be > 0"]
       ELSE IF tod_den100 <= 0
         THEN [raised |-> TRUE, error |-> "ValueError: TOD denominator must be > 0"]
       ELSE [raised |-> FALSE,
             metrics |-> [gdd_fs2 |-> out_gdd, tod_fs3 |-> out_tod,
                          omega0_rad_per_fs |-> 240 \div r10,
                          n_passes |-> cfg.n_passes, diffraction_order |-> m]]

\* TreacyGratingStage.process, lines 116-137: the spectral phase applied to the
\* copy c, and the stage's metrics
TreacyGratingStage_apply(cfg, c, fs, cfg_metrics) ==
    LET out == c.sid
        p0 == c.heap[c.heap[out].pulse]
        w == p0.grid.w
        pOut == IF cfg.apply_to_pulse
                THEN RefreshSpectrum(RefreshIntensity(
                        [p0 EXCEPT !.field_w =
                            [k \in 1..Len(w) |->
                               RotQ(p0.field_w[k],
                                    phase_from_dispersion(w[k], cfg_metrics.omega0_rad_per_fs,
                                                          cfg_metrics.gdd_fs2,
                                                          cfg_metrics.tod_fs3))],
                                    !.field_t = ToTime(
                            [k \in 1..Len(w) |->
                               RotQ(p0.field_w[k],
                                    phase_from_dispersion(w[k], cfg_metrics.omega0_rad_per_fs,
                                                          cfg_metrics.gdd_fs2,
                                                          cfg_metrics.tod_fs3))])]))
                ELSE p0
        stage_metrics ==
            (<<cfg.name, "energy_au">> :> EnergyAu(pOut.intensity_t, pOut.grid.dt))
            @@ (<<cfg.name, "apply_to_pulse">> :> (IF cfg.apply_to_pulse THEN 1 ELSE 0))
            @@ [key \in {<<cfg.name, f>> : f \in DOMAIN cfg_metrics} |-> cfg_metrics[key[2]]]
    IN StageResult(UpdatePart(SetPart(c.heap, out, "pulse", pOut), out, "metrics", stage_metrics),
                   fs, out, stage_metrics)

\* TreacyGratingStage.process, lines 104-114: the dispersion coefficients of the
\* configured kind; the grating-pair geometry may raise
TreacyGratingStage_dispersion(cfg, c, fs, geom) ==
    IF geom.raised THEN Raise(c.heap, fs, geom.error)
    ELSE TreacyGratingStage_apply(cfg, c, fs, geom.metrics)

\* TreacyGratingStage.process
TreacyGratingStage_process(cfg, h, fs, sid, policy, env) ==
    TreacyGratingStage_dispersion(
       cfg, deepcopy(h, sid), fs,
       IF cfg.kind = "treacy_grating_pair" THEN compute_treacy_metrics(cfg)
       ELSE [raised |-> FALSE,
             metrics |-> [gdd_fs2 |-> cfg.gdd_fs2, tod_fs3 |-> cfg.tod_fs3,
                          omega0_rad_per_fs |->
                             Sum(h[h[sid].pulse].grid.w) \div Len(h[h[sid].pulse].grid.w)]])

-----------------------------------------------------------------------------
(* Fiber stage: src/cpa_sim/stages/fiber *)

\* assert_uniform_spacing: TRUE when it returns, FALSE when it raises
uniform_spacing(t) ==
    Len(t) < 2 \/ \A k \in 1..(Len(t) - 1) : t[k + 1] - t[k] = t[2] - t[1]

\* a plausible slip: the metric key is spelled with a fixed "fiber" prefix
run_toy_phase_fixed_prefix(h, fs, sid, stage_name, numerics) ==
    LET c == deepcopy(h, sid)
        out == c.sid
        p0 == c.heap[c.heap[out].pulse]
        intensity == Abs2Arr(p0.field_t)
        peak == Max(intensity)
        phase == [k \in 1..Len(p0.field_t) |->
                    (numerics.nonlinear_phase_rad * Abs2(p0.field_t[k]))
                       \div (IF peak > 0 THEN peak ELSE 1)]
        p4 == RefreshSpectrum(RefreshIntensity(RefreshFieldW(
                 SetFieldT(p0, [k \in 1..Len(p0.field_t) |-> RotQ(p0.field_t[k], phase[k])]))))
        metrics == (<<"fiber", "b_integral_proxy_rad">> :> Max(phase))
    IN StageResult(
         UpdatePart(
           UpdatePart(SetPart(c.heap, out, "pulse", p4), out, "meta",
                      ("pulse" :> [field_units |-> "sqrt(W)", power_is_absA2_W |-> TRUE])),
           out, "metrics", metrics),
         fs, out, metrics)

\* run_toy_phase; phase = nonlinear_phase_rad * intensity / max(max(intensity), 1e-12)
run_toy_phase(h, fs, sid, stage_name, numerics) ==
    LET c == deepcopy(h, sid)
        out == c.sid
        p0 == c.heap[c.heap[out].pulse]
        intensity == Abs2Arr(p0.field_t)
        peak == Max(intensity)
        phase == [k \in 1..Len(p0.field_t) |->
                    (numerics.nonlinear_phase_rad * Abs2(p0.field_t[k]))
                       \div (IF peak > 0 THEN peak ELSE 1)]
        p4 == RefreshSpectrum(RefreshIntensity(RefreshFieldW(
                 SetFieldT(p0, [k \in 1..Len(p0.field_t) |-> RotQ(p0.field_t[k], phase[k])]))))
        metrics == (<<stage_name, "b_integral_proxy_rad">> :> Max(phase))
    IN StageResult(
         UpdatePart(
           UpdatePart(SetPart(c.heap, out, "pulse", p4), out, "meta",
                      ("pulse" :> [field_units |-> "sqrt(W)", power_is_absA2_W |-> TRUE])),
           out, "metrics", metrics),
         fs, out, metrics)

\* largest exponent of a grid size of the model
MaxLog2 == 7

\* int(round(math.log2(size))) for size >= 1: the k with k - 1/2 <= log2(size) < k + 1/2,
\* that is 2^(2k-1) <= size^2 < 2^(2k+1); log2 of an integer is never k + 1/2
round_log2(size) ==
    CHOOSE k \in 0..MaxLog2 :
       /\ (k = 0 \/ Pow2(2 * k - 1) <= size * size)
       /\ size * size < Pow2(2 * k + 1)

\* nearest_power_of_two for size >= 1: 1 << round(log2(size))
nearest_power_of_two(size) == Pow2(round_log2(size))

\* has_large_prime_factor with limit = 13
has_large_prime_factor(size) ==
    \E f \in 14..size : size % f = 0 /\ \A g \in 2..(f - 1) : f % g # 0

\* _apply_grid_policy, lines 93-98: the number of points the policy asks for
grid_policy_points(numerics, size) ==
    CASE numerics.grid_policy = "force_pow2" -> nearest_power_of_two(size)
      [] numerics.grid_policy = "force_resolution" -> Get(numerics.resolution_override)
      [] OTHER -> size

\* resample_complex_uniform onto np.linspace(old_t[0], old_t[-1], new_size) for
\* the sizes whose new instants fall on old samples
resample_complex_uniform(signal, new_size) ==
    LET n == Len(signal) IN
    [k \in 1..new_size |->
        IF new_size = 1 THEN signal[1] ELSE signal[1 + ((n - 1) * (k - 1)) \div (new_size - 1)]]

\* _apply_grid_policy; returns the copy, the artifacts, or the error it raises
apply_grid_policy(h, sid, numerics, stage_name) ==
    LET c == deepcopy(h, sid)
        out == c.sid
        p0 == c.heap[c.heap[out].pulse]
        size == Len(p0.field_t)
        n_points == grid_policy_points(numerics, size)
        new_t == linspace(p0.grid.t[1], p0.grid.t[size], n_points)
        new_w == AngularFrequencyGrid(n_points)
        p1 == [p0 EXCEPT !.field_t = resample_complex_uniform(p0.field_t, n_points),
                         !.grid = [@ EXCEPT !.t = new_t,
                                            !.dt = IF n_points > 1 THEN new_t[2] - new_t[1] ELSE @,
                                            !.w = new_w,
                                            !.dw = IF n_points > 1 THEN new_w[2] - new_w[1] ELSE @]]
    IN IF numerics.grid_policy = "force_resolution" /\ numerics.resolution_override = None
       THEN [raised |-> TRUE, error |-> "ValueError: resolution_override is required"]
       ELSE [raised |-> FALSE,
             heap |-> IF n_points # size THEN SetPart(c.heap, out, "pulse", p1) ELSE c.heap,
             sid |-> out,
             artifacts |-> IF n_points # size
                           THEN (<<stage_name, "resampled_points">> :> n_points)
                           ELSE EmptyDict]

\* _resolve_gamma: TRUE when it raises
resolve_gamma_raises(physics) ==
    physics.gamma_1_per_w_m = None /\ (physics.n2_m2_per_w = None \/ physics.aeff_m2 = None)

\* gnlse.GNLSE(setup).run(), the external solver: a deterministic function of
\* the envelope it is given; for the lossless, linear fiber of the model the
\* last saved slice is that envelope
GnlseSolve(field_t) == field_t

\* run_wust_gnlse; env.gnlse tells whether the optional gnlse package is installed
\* run_wust_gnlse, lines 196-215: the metrics of the input pulse pIn and the output pulse p1
wust_gnlse_metrics(stage_name, pIn, p1) ==
    (<<stage_name, "energy_in_au">> :> Sum(Abs2Arr(pIn.field_t)) * pIn.grid.dt)
    @@ (<<stage_name, "energy_out_au">> :> Sum(Abs2Arr(p1.field_t)) * p1.grid.dt)
    @@ (<<stage_name, "energy_in_j">> :> Sum(Abs2Arr(pIn.field_t)) * pIn.grid.dt)
    @@ (<<stage_name, "energy_out_j">> :> Sum(Abs2Arr(p1.field_t)) * p1.grid.dt)
    @@ (<<stage_name, "energy_ratio">> :>
          IF Sum(Abs2Arr(pIn.field_t)) * pIn.grid.dt > 0
          THEN Some((100 * Sum(Abs2Arr(p1.field_t)) * p1.grid.dt)
                      \div (Sum(Abs2Arr(pIn.field_t)) * pIn.grid.dt))
          ELSE None)
    @@ (<<stage_name, "grid_points">> :> Len(p1.field_t))
    @@ (<<stage_name, "spectral_rms_au">> :>
          ISqrt(Sum(Abs2Arr(p1.field_w)) \div Len(p1.field_w)))

\* run_wust_gnlse, lines 180-217: metadata, artifacts and metrics written to the copy
wust_gnlse_record(fs, stage_name, g, metrics) ==
    StageResult(
      UpdatePart(
        UpdatePart(
          UpdatePart(g.heap, g.sid, "meta",
                     ("pulse" :> [field_units |-> "sqrt(W)", power_is_absA2_W |-> TRUE])),
          g.sid, "artifacts",
          g.artifacts
            @@ (<<stage_name, "backend">> :> "wust_gnlse")
            @@ (<<stage_name, "resolution">> :> Len(g.heap[g.heap[g.sid].pulse].field_t))),
        g.sid, "metrics", metrics),
      fs, g.sid, metrics)

\* the solver call and the write-back of its last slice into the copy
wust_gnlse_write_back(g) ==
    [g EXCEPT !.heap =
        SetPart(g.heap, g.sid, "pulse",
                RefreshSpectrum(RefreshFieldW(RefreshIntensity(
                   SetFieldT(g.heap[g.heap[g.sid].pulse],
                             GnlseSolve(g.heap[g.heap[g.sid].pulse].field_t))))))]

\* run_wust_gnlse, lines 201-217, on the copy g the solver's slice was written to
run_wust_gnlse_finish(fs, stage_name, pIn, g) ==
    wust_gnlse_record(fs, stage_name, g,
                      wust_gnlse_metrics(stage_name, pIn, g.heap[g.heap[g.sid].pulse]))

\* run_wust_gnlse once the grid policy was applied: g is what _apply_grid_policy gave
run_wust_gnlse_on(h, fs, sid, stage_name, physics, g) ==
    IF g.raised THEN Raise(h, fs, g.error)
    ELSE IF resolve_gamma_raises(physics)
      THEN Raise(g.heap, fs, "ValueError: Fiber physics must provide gamma_1_per_w_m")
    ELSE run_wust_gnlse_finish(fs, stage_name, h[h[sid].pulse], wust_gnlse_write_back(g))

\* run_wust_gnlse; env.gnlse tells whether the optional gnlse package is installed
run_wust_gnlse(h, fs, sid, stage_name, physics, numerics, env) ==
    IF ~env.gnlse THEN Raise(h, fs, "RuntimeError: wust_gnlse requires the gnlse package")
    ELSE run_wust_gnlse_on(h, fs, sid, stage_name, physics,
                           apply_grid_policy(h, sid, numerics, stage_name))

\* FiberStage.process, lines 36-47: plot artifacts merged into the backend's result
FiberStage_finish(result, plots) ==
    IF result.raised THEN result
    ELSE StageResult(UpdatePart(result.heap, result.state, "artifacts", plots.artifacts),
                     plots.fs, result.state, result.metrics)

\* FiberStage.process
FiberStage_process(cfg, h, fs, sid, policy, env) ==
    IF ~uniform_spacing(h[h[sid].pulse].grid.t)
      THEN Raise(h, fs, "ValueError: Fiber stage requires a uniformly spaced pulse time grid.")
    ELSE FiberStage_finish(
           IF cfg.numerics.backend = "toy_phase"
           THEN run_toy_phase(h, fs, sid, cfg.name, cfg.numerics)
           ELSE run_wust_gnlse(h, fs, sid, cfg.name, cfg.physics, cfg.numerics, env),
           maybe_emit_stage_plots(cfg.name, policy, env, fs))

-----------------------------------------------------------------------------
(* Metrics: src/cpa_sim/metrics.py, src/cpa_sim/stages/metrics/standard.py *)

\* Ratios are reported in hundredths, similarity scores in tenths.
\* Scale-invariant quantities are computed on arrays brought below 2^10 by a
\* common power-of-two divisor, which keeps every product inside the integers.
RECURSIVE ScaleFor(_)
ScaleFor(m) == IF m < 1024 THEN 1 ELSE 2 * ScaleFor(m \div 2)

Rescaled(x) ==
    LET d == IF Len(x) = 0 THEN 1 ELSE ScaleFor(Max(x)) IN [k \in 1..Len(x) |-> x[k] \div d]

\* normalized_cross_correlation for arrays of equal shape, in tenths, clipped to [0, 10]
normalized_cross_correlation(reference, candidate) ==
    LET ref == Rescaled(reference)
        cur == Rescaled(candidate)
        n == Len(ref)
        ref_norm == ISqrt(Sum([k \in 1..n |-> ref[k] * ref[k]]))
        cur_norm == ISqrt(Sum([k \in 1..n |-> cur[k] * cur[k]]))
        score == (10 * Sum([k \in 1..n |-> ref[k] * cur[k]])) \div (ref_norm * cur_norm)
    IN IF ref_norm <= 0 \/ cur_norm <= 0 THEN 0
       ELSE IF score > 10 THEN 10 ELSE IF score < 0 THEN 0 ELSE score

\* the amplification ratio an unguarded division would report
amplification_ratio_unguarded(energy_out, energy_in) ==
    IF energy_in = 0 THEN 1 ELSE (100 * energy_out) \div energy_in

\* amplification_ratio, in hundredths
amplification_ratio(energy_out, energy_in) ==
    IF energy_in <= 0 THEN 0 ELSE (100 * energy_out) \div energy_in

\* _interp_crossing with target = peak / 2
interp_crossing(x0, x1, y0, y1, peak) ==
    IF y1 = y0 THEN x0 ELSE x0 + ((peak - 2 * y0) * (x1 - x0)) \div (2 * (y1 - y0))

\* _interpolated_fwhm_fs
interpolated_fwhm_fs(t, intensity, peak) ==
    LET n == Len(intensity)
        peak_idx == CHOOSE i \in 1..n :
                       intensity[i] = peak /\ \A j \in 1..(i - 1) : intensity[j] # peak
        lefts == {i \in 2..peak_idx : 2 * intensity[i - 1] < peak /\ peak <= 2 * intensity[i]}
        rights == {i \in peak_idx..(n - 1) :
                      2 * intensity[i] >= peak /\ peak > 2 * intensity[i + 1]}
        l == CHOOSE i \in lefts : \A j \in lefts : j <= i
        r == CHOOSE i \in rights : \A j \in rights : i <= j
        t_left == interp_crossing(t[l - 1], t[l], intensity[l - 1], intensity[l], peak)
        t_right == interp_crossing(t[r], t[r + 1], intensity[r], intensity[r + 1], peak)
    IN IF peak <= 0 \/ n < 2 THEN 0
       ELSE IF lefts = {} \/ rights = {} THEN 0
       ELSE t_right - t_left

\* _autocorrelation_fwhm_fs: np.correlate(centered, centered, mode="full")
autocorrelation_fwhm_fs(t, intensity) ==
    LET n == Len(intensity)
        centered == Rescaled([k \in 1..n |-> IF intensity[k] > 0 THEN intensity[k] ELSE 0])
        dt == (t[n] - t[1]) \div (n - 1)
        autocorr == [l \in 1..(2 * n - 1) |->
                       Sum([k \in 1..n |->
                              IF k + l - n \in 1..n THEN centered[k] * centered[k + l - n] ELSE 0])]
        lags == [l \in 1..(2 * n - 1) |-> (l - n) * dt]
    IN IF n < 2 \/ \A k \in 1..n : intensity[k] <= 0 THEN 0
       ELSE interpolated_fwhm_fs(lags, autocorr, Max(autocorr))

\* StandardMetricsStage.process, lines 22-64: the summary metrics of pulse p
StandardMetricsStage_metrics(p, meta, metrics0) ==
    LET t == p.grid.t
        w == p.grid.w
        intensity == p.intensity_t
        spec == p.spectrum_w
        reference == DictGet(meta, "reference", [intensity_t |-> <<>>, spectrum_w |-> <<>>])
    IN (<<"summary", "energy_au">> :> EnergyAu(intensity, p.grid.dt))
       @@ (<<"summary", "peak_intensity_au">> :> Max(intensity))
       @@ (<<"summary", "fwhm_fs">> :> interpolated_fwhm_fs(t, intensity, Max(intensity)))
       @@ (<<"summary", "ac_fwhm_fs">> :> autocorrelation_fwhm_fs(t, intensity))
       @@ (<<"summary", "bandwidth_rad_per_fs">> :>
             ISqrt(Sum([k \in 1..Len(w) |-> w[k] * w[k] * spec[k]]) \div Sum(spec)))
       @@ (<<"summary", "amplification_ratio">> :>
             amplification_ratio(EnergyAu(intensity, p.grid.dt),
                                 DictGet(metrics0, <<"laser", "energy_au">>, 0)))
       @@ (<<"summary", "temporal_shape_similarity">> :>
             IF Len(reference.intensity_t) = Len(intensity)
             THEN normalized_cross_correlation(reference.intensity_t, intensity) ELSE 0)
       @@ (<<"summary", "spectral_shape_similarity">> :>
             IF Len(reference.spectrum_w) = Len(spec)
             THEN normalized_cross_correlation(reference.spectrum_w, spec) ELSE 0)

\* StandardMetricsStage.process, lines 66-89: metrics, observable contract and plot
\* artifacts written to the copy c
StandardMetricsStage_record(c, stage_metrics, plots) ==
    StageResult(
      UpdatePart(
        UpdatePart(
          UpdatePart(c.heap, c.sid, "metrics", stage_metrics),
          c.sid, "meta",
          ("observable_contract" :>
              [intensity_fwhm |-> stage_metrics[<<"summary", "fwhm_fs">>],
               intensity_autocorrelation_fwhm |-> stage_metrics[<<"summary", "ac_fwhm_fs">>],
               spectral_rms_width |-> stage_metrics[<<"summary", "bandwidth_rad_per_fs">>]])),
        c.sid, "artifacts", plots.artifacts),
      plots.fs, c.sid, stage_metrics)

\* StandardMetricsStage.process on the copy c
StandardMetricsStage_on(cfg, c, fs, policy, env) ==
    IF Sum(c.heap[c.heap[c.sid].pulse].spectrum_w) = 0
      THEN Raise(c.heap, fs, "ZeroDivisionError: Weights sum to zero, can't be normalized")
    ELSE StandardMetricsStage_record(
           c,
           StandardMetricsStage_metrics(c.heap[c.heap[c.sid].pulse],
                                        c.heap[c.heap[c.sid].meta],
                                        c.heap[c.heap[c.sid].metrics]),
           maybe_emit_stage_plots(cfg.name, policy, env, fs))

\* StandardMetricsStage.process
StandardMetricsStage_process(cfg, h, fs, sid, policy, env) ==
    StandardMetricsStage_on(cfg, deepcopy(h, sid), fs, policy, env)

-----------------------------------------------------------------------------
(* Power-target wrapper: src/cpa_sim/stages/amp/fiber_amp_wrap.py *)

\* 10 * log10(num / den), on the 3 dB ladder of the powers of two
RECURSIVE TenLog10(_, _)
TenLog10(num, den) ==
    IF num >= 2 * den THEN 3 + TenLog10(num, 2 * den)
    ELSE IF 2 * num <= den THEN TenLog10(2 * num, den) - 3
    ELSE 0

\* FiberAmpWrapStage.process, lines 62-75: the wrapper's metrics
FiberAmpWrapStage_metrics(cfg, d, energy_out_j) ==
    (<<cfg.name, "power_out_target_w">> :> cfg.power_out_w)
    @@ (<<cfg.name, "power_in_avg_w">> :> d.power_in_avg_w)
    @@ (<<cfg.name, "power_out_avg_w">> :> energy_out_j * d.rep_rate)
    @@ (<<cfg.name, "energy_in_j">> :> d.energy_in_j)
    @@ (<<cfg.name, "energy_out_j">> :> energy_out_j)
    @@ (<<cfg.name, "derived_gain_db">> :> d.gain_db)
    @@ (<<cfg.name, "derived_loss_eff_db_per_m">> :> d.loss_eff_db_per_m)
    @@ (<<cfg.name, "derived_loss_total_db_per_m">> :> d.loss_total_db_per_m)

\* FiberAmpWrapStage.process, lines 76-81: the wrapper's metrics merged into the
\* fiber stage's output state and result
FiberAmpWrapStage_merge(fiber_result, stage_metrics) ==
    StageResult(UpdatePart(fiber_result.heap, fiber_result.state, "metrics", stage_metrics),
                fiber_result.fs, fiber_result.state,
                Update(fiber_result.metrics, stage_metrics))

\* _pulse_energy_j
pulse_energy_j(p) == Sum(Abs2Arr(p.field_t)) * p.grid.dt

\* FiberAmpWrapStage.process, lines 58-81, given the wrapped fiber stage's result
FiberAmpWrapStage_wrap(cfg, d, fiber_result) ==
    IF fiber_result.raised THEN fiber_result
    ELSE FiberAmpWrapStage_merge(
            fiber_result,
            FiberAmpWrapStage_metrics(
               cfg, d,
               pulse_energy_j(fiber_result.heap[fiber_result.heap[fiber_result.state].pulse])))

\* FiberAmpWrapStage.process, lines 27-45: the derived gain and losses
FiberAmpWrapStage_derived(cfg, rep_rate, energy_in_j) ==
    LET gain_db == TenLog10(cfg.power_out_w, energy_in_j * rep_rate)
        loss_eff == (-(gain_db \div cfg.physics.length_m)) - cfg.physics.loss_db_per_m
    IN [rep_rate |-> rep_rate,
        energy_in_j |-> energy_in_j,
        power_in_avg_w |-> energy_in_j * rep_rate,
        gain_db |-> gain_db,
        loss_eff_db_per_m |-> loss_eff,
        loss_total_db_per_m |-> cfg.physics.loss_db_per_m + loss_eff]

\* FiberAmpWrapStage.process once the inputs were checked
FiberAmpWrapStage_run(cfg, h, fs, sid, policy, env, d) ==
    FiberAmpWrapStage_wrap(
       cfg, d,
       FiberStage_process(
          FiberCfg(cfg.name,
                   [cfg.physics EXCEPT !.loss_db_per_m = d.loss_total_db_per_m],
                   cfg.numerics),
          h, fs, sid, policy, env))

\* FiberAmpWrapStage.process
FiberAmpWrapStage_process(cfg, h, fs, sid, policy, env) ==
    LET meta == h[h[sid].meta]
        energy_in_j == pulse_energy_j(h[h[sid].pulse])
    IN IF "rep_rate_mhz" \notin DOMAIN meta
         THEN Raise(h, fs, "ValueError: FiberAmpWrapStage requires state.meta['rep_rate_mhz']")
       ELSE IF meta["rep_rate_mhz"] <= 0
         THEN Raise(h, fs, "ValueError: FiberAmpWrapStage requires state.meta['rep_rate_mhz'] > 0")
       ELSE IF energy_in_j * meta["rep_rate_mhz"] <= 0
         THEN Raise(h, fs, "ValueError: FiberAmpWrapStage requires positive input average power")
       ELSE IF cfg.physics.length_m <= 0
         THEN Raise(h, fs, "ValueError: FiberAmpWrapStage requires physics.length_m > 0")
       ELSE FiberAmpWrapStage_run(
              cfg, h, fs, sid, policy, env,
              FiberAmpWrapStage_derived(cfg, meta["rep_rate_mhz"], energy_in_j))

-----------------------------------------------------------------------------
(* Toy split-step amplifier: src/cpa_sim/stages/amp/toy_fiber_amp.py          *)
(* Powers are in the unit of energy_au * rep_rate_mhz, gains in dB on the    *)
(* 3 dB ladder, phases in quarter turns.                                     *)

\* ToyFiberAmpCfg: lossless, dispersion-free fiber of unit length
ToyFiberAmpCfg(name, amp_power_w, gain_db, n_steps, gamma_w_inv_m) ==
    [kind |-> "toy_fiber_amp", name |-> name, length_m |-> 1, n_steps |-> n_steps,
     amp_power_w |-> amp_power_w, gain_db |-> gain_db, loss_db_per_m |-> 0,
     beta2_s2_per_m |-> 0, gamma_w_inv_m |-> gamma_w_inv_m]

\* ToyFiberAmpCfg with a target power, a loss and a length
ToyFiberAmpCfgLossy(name, amp_power_w, n_steps, gamma_w_inv_m, loss_db_per_m, length_m) ==
    [ToyFiberAmpCfg(name, Some(amp_power_w), None, n_steps, gamma_w_inv_m)
       EXCEPT !.loss_db_per_m = loss_db_per_m, !.length_m = length_m]

\* ToyFiberAmpCfg(...) validation: length > 0, step count >= 1
ToyFiberAmpCfgValid(stage_cfg) == stage_cfg.length_m > 0 /\ stage_cfg.n_steps >= 1

\* _rep_rate_hz
ToyFiberAmp_rep_rate_hz(meta) ==
    IF "rep_rate_mhz" \notin DOMAIN meta
      THEN [raised |-> TRUE,
            error |-> "ValueError: ToyFiberAmpStage requires meta['rep_rate_mhz'] populated by laser stage."]
    ELSE IF meta["rep_rate_mhz"] <= 0
      THEN [raised |-> TRUE, error |-> "ValueError: ToyFiberAmpStage requires rep_rate_mhz > 0."]
    ELSE [raised |-> FALSE, value |-> meta["rep_rate_mhz"]]

\* a plausible slip: one message for both failures of the target-power mapping
resolve_gain_db_one_message(amp_power_w, gain_db, power_in_avg_w, loss_db_per_m, length_m) ==
    IF amp_power_w # None
    THEN IF power_in_avg_w <= 0 \/ Get(amp_power_w) <= 0
           THEN [raised |-> TRUE,
                 error |-> "ValueError: ToyFiberAmpStage computed non-positive net gain from amp_power_w."]
         ELSE [raised |-> FALSE,
               value |-> TenLog10(Get(amp_power_w), power_in_avg_w) + loss_db_per_m * length_m]
    ELSE IF gain_db = None
      THEN [raised |-> TRUE,
            error |-> "ValueError: ToyFiberAmpCfg requires one of amp_power_w or gain_db."]
    ELSE [raised |-> FALSE, value |-> Get(gain_db)]

\* _resolve_gain_db; net_gain = amp_power_w / power_in_avg_w has the sign of
\* amp_power_w once power_in_avg_w > 0
resolve_gain_db(amp_power_w, gain_db, power_in_avg_w, loss_db_per_m, length_m) ==
    IF amp_power_w # None
    THEN IF power_in_avg_w <= 0
           THEN [raised |-> TRUE,
                 error |-> "ValueError: ToyFiberAmpStage could not compute amp_power_w mapping because input average power is not positive."]
         ELSE IF Get(amp_power_w) <= 0
           THEN [raised |-> TRUE,
                 error |-> "ValueError: ToyFiberAmpStage computed non-positive net gain from amp_power_w."]
         ELSE [raised |-> FALSE,
               value |-> TenLog10(Get(amp_power_w), power_in_avg_w) + loss_db_per_m * length_m]
    ELSE IF gain_db = None
      THEN [raised |-> TRUE,
            error |-> "ValueError: ToyFiberAmpCfg requires one of amp_power_w or gain_db."]
    ELSE [raised |-> FALSE, value |-> Get(gain_db)]

\* multiplication by 2^e
ScalePow2(a, e) == IF e >= 0 THEN CScale(a, Pow2(e)) ELSE CDivInt(a, Pow2(-e))

\* 10 ** (db / 10) on the 3 dB ladder
PowerRatioOfDb(db) == IF db >= 0 THEN Pow2(db \div 3) ELSE 0

\* a plausible slip: the half-step gain is taken from the gross gain, the loss
\* left out
amp_half_linear_gross(cfg, gain_db) == gain_db \div (12 * cfg.n_steps)

\* amp_half_linear = exp(0.25 * (g_power_per_m - alpha_power_per_m) * dz), as
\* the exponent of two: the net gain in dB spread over 2 * n_steps half steps
\* of the amplitude
amp_half_linear(cfg, gain_db) ==
    (gain_db - cfg.loss_db_per_m * cfg.length_m) \div (12 * cfg.n_steps)

\* an ndarray held by value: every element is computed once
AsArray(x) == SubSeq(x, 1, Len(x))

\* _half_linear_step, lines 103-104, on the spectrum field_w
half_linear_apply(cfg, field_w, w, amp_half) ==
    AsArray(ToTime([k \in 1..Len(w) |->
              ScalePow2(RotQ(field_w[k],
                             (cfg.beta2_s2_per_m * w[k] * w[k] * cfg.length_m)
                                \div (2 * cfg.n_steps)),
                        amp_half)]))

\* sequencing of two array statements: x is computed, then F is applied to it
Then(x, F(_)) == IF Len(x) >= 0 THEN F(x) ELSE x

\* _half_linear_step
half_linear_step(cfg, field_t, w, amp_half) ==
    Then(AsArray(ToFreq(field_t)), LAMBDA field_w : half_linear_apply(cfg, field_w, w, amp_half))

\* ToyFiberAmpStage.process, lines 56-57: the Kerr phase at the midpoint
kerr_step(cfg, evolved) ==
    AsArray([k \in 1..Len(evolved) |->
               RotQ(evolved[k],
                    (cfg.gamma_w_inv_m * cfg.length_m * Abs2(evolved[k])) \div cfg.n_steps)])

\* ToyFiberAmpStage.process, lines 53-60: one sub-step, after its first half step
split_step_rest(cfg, half_stepped, w, amp_half) ==
    Then(kerr_step(cfg, half_stepped), LAMBDA p_t : half_linear_step(cfg, p_t, w, amp_half))

\* ToyFiberAmpStage.process, lines 51-60: the envelope after n_steps sub-steps
split_steps(cfg, field_t, w, amp_half) ==
    LET evolved[i \in 0..cfg.n_steps] ==
            IF i = 0 THEN field_t
            ELSE Then(evolved[i - 1],
                      LAMBDA e : Then(half_linear_step(cfg, e, w, amp_half),
                                      LAMBDA h : split_step_rest(cfg, h, w, amp_half)))
    IN evolved[cfg.n_steps]

\* _rms_bandwidth_rad_per_fs, given total = sum(spectrum)
rms_bandwidth_of(w, spectrum, total) ==
    IF total <= 0 THEN 0
    ELSE ISqrt(Sum([k \in 1..Len(w) |->
                      (w[k] - Sum([j \in 1..Len(w) |-> w[j] * spectrum[j]]) \div total)
                      * (w[k] - Sum([j \in 1..Len(w) |-> w[j] * spectrum[j]]) \div total)
                      * spectrum[k]]) \div total)

\* _rms_bandwidth_rad_per_fs
rms_bandwidth_rad_per_fs(w, spectrum) == rms_bandwidth_of(w, spectrum, Sum(spectrum))

\* ToyFiberAmpStage.process, lines 74-90: the stage's metrics
ToyFiberAmpStage_metrics(cfg, pIn, pOut, rep_hz, gain_db_applied) ==
    (<<cfg.name, "gain_db">> :> gain_db_applied)
    @@ (<<cfg.name, "gain_db_applied">> :> gain_db_applied)
    @@ (<<cfg.name, "gain_linear">> :> PowerRatioOfDb(gain_db_applied))
    @@ (<<cfg.name, "loss_db_per_m">> :> cfg.loss_db_per_m)
    @@ (<<cfg.name, "energy_in_au">> :> EnergyAu(Abs2Arr(pIn.field_t), pIn.grid.dt))
    @@ (<<cfg.name, "energy_out_au">> :> EnergyAu(Abs2Arr(pOut.field_t), pOut.grid.dt))
    @@ (<<cfg.name, "energy_in_j">> :> EnergyAu(Abs2Arr(pIn.field_t), pIn.grid.dt))
    @@ (<<cfg.name, "energy_out_j">> :> EnergyAu(Abs2Arr(pOut.field_t), pOut.grid.dt))
    @@ (<<cfg.name, "power_in_avg_w">> :>
           EnergyAu(Abs2Arr(pIn.field_t), pIn.grid.dt) * rep_hz)
    @@ (<<cfg.name, "power_out_avg_w">> :>
           EnergyAu(Abs2Arr(pOut.field_t), pOut.grid.dt) * rep_hz)
    @@ (<<cfg.name, "peak_power_in_au">> :> Max(Abs2Arr(pIn.field_t)))
    @@ (<<cfg.name, "peak_power_out_au">> :> Max(pOut.intensity_t))
    @@ (<<cfg.name, "bandwidth_in_rad_per_fs">> :>
           rms_bandwidth_rad_per_fs(pIn.grid.w, Abs2Arr(ToFreq(pIn.field_t))))
    @@ (<<cfg.name, "bandwidth_out_rad_per_fs">> :>
           rms_bandwidth_rad_per_fs(pIn.grid.w, pOut.spectrum_w))
    @@ (<<cfg.name, "b_integral_proxy_rad">> :>
           cfg.gamma_w_inv_m * cfg.length_m * Max(Abs2Arr(pIn.field_t)))

\* ToyFiberAmpStage.process, lines 62-93: the evolved envelope written to the
\* copy, the derived arrays refreshed, metrics and plot artifacts recorded
ToyFiberAmpStage_write(c, stage_metrics, pOut, plots) ==
    StageResult(
       UpdatePart(UpdatePart(SetPart(c.heap, c.sid, "pulse", pOut),
                             c.sid, "metrics", stage_metrics),
                  c.sid, "artifacts", plots.artifacts),
       plots.fs, c.sid, stage_metrics)

\* ToyFiberAmpStage.process, lines 46-93, given the evolved envelope
ToyFiberAmpStage_finish(cfg, c, pIn, rep_hz, gain_db_applied, pOut, plots) ==
    ToyFiberAmpStage_write(
       c, ToyFiberAmpStage_metrics(cfg, pIn, pOut, rep_hz, gain_db_applied), pOut, plots)

\* ToyFiberAmpStage.process, lines 38-93, given what _resolve_gain_db gave
ToyFiberAmpStage_resolved(cfg, c, fs, policy, env, pIn, rep_hz, g) ==
    IF g.raised THEN Raise(c.heap, fs, g.error)
    ELSE ToyFiberAmpStage_finish(
            cfg, c, pIn, rep_hz, g.value,
            RefreshSpectrum(RefreshIntensity(RefreshFieldW(SetFieldT(
               pIn, split_steps(cfg, pIn.field_t, pIn.grid.w,
                                amp_half_linear(cfg, g.value)))))),
            maybe_emit_stage_plots(cfg.name, policy, env, fs))

\* ToyFiberAmpStage.process, lines 25-45, on the copy c
ToyFiberAmpStage_on(cfg, c, fs, policy, env, pIn, rep) ==
    IF rep.raised THEN Raise(c.heap, fs, rep.error)
    ELSE ToyFiberAmpStage_resolved(
            cfg, c, fs, policy, env, pIn, rep.value,
            resolve_gain_db(cfg.amp_power_w, cfg.gain_db,
                            EnergyAu(Abs2Arr(pIn.field_t), pIn.grid.dt) * rep.value,
                            cfg.loss_db_per_m, cfg.length_m))

\* ToyFiberAmpStage.process
ToyFiberAmpStage_process(cfg, h, fs, sid, policy, env) ==
    ToyFiberAmpStage_on(cfg, deepcopy(h, sid), fs, policy, env, h[h[sid].pulse],
                        ToyFiberAmp_rep_rate_hz(h[h[sid].meta]))

-----------------------------------------------------------------------------
(* Stage registry: src/cpa_sim/stages/registry.py *)

LASER_GEN_BACKENDS == [k \in {"analytic"} |-> "AnalyticLaserGenStage"]

FREE_SPACE_BACKENDS ==
    [k \in {"treacy_grating", "phase_only_dispersion", "treacy_grating_pair"} |->
        "TreacyGratingStage"]

FIBER_BACKENDS == [k \in {"fiber"} |-> "FiberStage"]

AMP_BACKENDS == [k \in {"simple_gain"} |-> "SimpleGainStage"]

METRICS_BACKENDS == [k \in {"standard"} |-> "StandardMetricsStage"]

\* BACKENDS[cfg.kind](cfg): a KeyError when the kind is not registered
Lookup(backends, cfg) ==
    IF cfg.kind \in DOMAIN backends
    THEN [raised |-> FALSE, stage |-> [cls |-> backends[cfg.kind], name |-> cfg.name, cfg |-> cfg]]
    ELSE [raised |-> TRUE, error |-> "KeyError: " \o cfg.kind]

build_laser_gen_stage(cfg) == Lookup(LASER_GEN_BACKENDS, cfg)

build_free_space_stage(cfg) == Lookup(FREE_SPACE_BACKENDS, cfg)

build_fiber_stage(cfg) == Lookup(FIBER_BACKENDS, cfg)

build_amp_stage(cfg) == Lookup(AMP_BACKENDS, cfg)

build_metrics_stage(cfg) == Lookup(METRICS_BACKENDS, cfg)

-----------------------------------------------------------------------------
(* Pipeline construction: src/cpa_sim/pipeline.py *)

\* the isinstance chain of _build_configurable_stages
build_configurable_stage(stage_cfg) ==
    CASE stage_cfg.kind = "fiber_amp_wrap" -> build_amp_stage(stage_cfg)
      [] stage_cfg.kind = "fiber" -> build_fiber_stage(stage_cfg)
      [] stage_cfg.kind = "simple_gain" -> build_amp_stage(stage_cfg)
      [] OTHER -> build_free_space_stage(stage_cfg)

\* a plausible slip: fiber and amplifier swapped in the default order
ordered_stage_cfgs_swapped(cfg) ==
    IF cfg.stages = None THEN <<cfg.stretcher, cfg.amp, cfg.fiber, cfg.compressor>>
    ELSE Get(cfg.stages)

\* a plausible slip: `if not cfg.stages`, which takes an empty list for an absent one
ordered_stage_cfgs_falsy(cfg) ==
    IF cfg.stages = None \/ cfg.stages = Some(<<>>)
    THEN <<cfg.stretcher, cfg.fiber, cfg.amp, cfg.compressor>>
    ELSE Get(cfg.stages)

\* _build_configurable_stages, lines 28-31: the ordered stage configurations
ordered_stage_cfgs(cfg) ==
    IF cfg.stages = None THEN <<cfg.stretcher, cfg.fiber, cfg.amp, cfg.compressor>>
    ELSE Get(cfg.stages)

\* _build_configurable_stages, lines 33-43: the first failing lookup raises
build_configurable_stages(cfg) ==
    LET ordered == ordered_stage_cfgs(cfg)
        built == [i \in 1..Len(ordered) |-> build_configurable_stage(ordered[i])]
        failing == {i \in 1..Len(ordered) : built[i].raised}
    IN IF failing = {}
       THEN [raised |-> FALSE, stages |-> [i \in 1..Len(ordered) |-> built[i].stage]]
       ELSE [raised |-> TRUE, error |-> built[CHOOSE i \in failing : \A j \in failing : i <= j].error]

\* build_pipeline: SequentialPipeline(stages=[laser, *configurable, metrics], name="cpa")
build_pipeline(cfg) ==
    LET laser == build_laser_gen_stage(cfg.laser_gen)
        middle == build_configurable_stages(cfg)
        metrics == build_metrics_stage(cfg.metrics)
    IN IF laser.raised THEN laser
       ELSE IF middle.raised THEN middle
       ELSE IF metrics.raised THEN metrics
       ELSE [raised |-> FALSE, name |-> "cpa",
             stages |-> <<laser.stage>> \o middle.stages \o <<metrics.stage>>]

\* sha256 of the canonical JSON dump, modelled by its preimage
config_hash_of(cfg) == <<"sha256", cfg>>

\* _hash_policy
hash_policy(policy) == IF policy = None THEN None ELSE Some(<<"sha256", Get(policy)>>)

\* a plausible slip: the initial state carries a placeholder summary metric
empty_state_seeded(seed, config_hash, policy_hash, now) ==
    [pulse |-> PulseState(PulseGrid(<<0, 1>>, <<0, 1>>, 1, 1, 1030),
                          <<CZero, CZero>>, <<CZero, CZero>>, <<0, 0>>, <<0, 0>>),
     beam |-> [radius_mm |-> 1, m2 |-> 1],
     meta |-> ("provenance" :> from_seed_and_hash(seed, config_hash, policy_hash, now)),
     metrics |-> (<<"summary", "energy_au">> :> 0),
     artifacts |-> EmptyDict]

\* _empty_state
empty_state(seed, config_hash, policy_hash, now) ==
    [pulse |-> PulseState(PulseGrid(<<0, 1>>, <<0, 1>>, 1, 1, 1030),
                          <<CZero, CZero>>, <<CZero, CZero>>, <<0, 0>>, <<0, 0>>),
     beam |-> [radius_mm |-> 1, m2 |-> 1],
     meta |-> ("provenance" :> from_seed_and_hash(seed, config_hash, policy_hash, now)),
     metrics |-> EmptyDict,
     artifacts |-> EmptyDict]

\* PipelineConfig(...) validation: every stage is one variant of the kind-tagged
\* union with its field validators satisfied; the list length is not constrained
StageCfgValid(stage_cfg) ==
    /\ stage_cfg.kind \in PipelineStageKinds
    /\ stage_cfg.kind = "fiber_amp_wrap" => stage_cfg.power_out_w > 0

PipelineConfigValid(cfg) ==
    /\ cfg.laser_gen.kind = "analytic"
    /\ cfg.stretcher.kind \in {"treacy_grating_pair", "phase_only_dispersion"}
    /\ cfg.fiber.kind = "fiber"
    /\ cfg.amp.kind \in {"simple_gain", "fiber_amp_wrap"} /\ StageCfgValid(cfg.amp)
    /\ cfg.compressor.kind \in {"treacy_grating_pair", "phase_only_dispersion"}
    /\ cfg.stages # None => \A i \in 1..Len(Get(cfg.stages)) : StageCfgValid(Get(cfg.stages)[i])
    /\ cfg.metrics.kind = "standard"

-----------------------------------------------------------------------------
(* Inputs of the model *)

\* the stage configurations a stage list is drawn from
StageAlphabet ==
    { PhaseOnlyDispersionCfg("stretcher", 2, 6, TRUE),
      TreacyGratingPairCfg("compressor", 12, 6, -1, TRUE),
      TreacyGratingPairCfg("compressor", 12, 6, -2, TRUE),
      FiberCfg("fiber_only", FiberPhysicsCfg(0, None), ToyPhaseNumericsCfg(4)),
      FiberCfg("fiber", FiberPhysicsCfg(0, Some(1)), WustGnlseNumericsCfg("force_resolution", Some(2))),
      FiberCfg("fiber", FiberPhysicsCfg(0, None), WustGnlseNumericsCfg("use_state", None)),
      SimpleGainCfg("amp", 4),
      SimpleGainCfg("laser", 4),
      SimpleGainCfg("amp", 0),
      FiberAmpWrapCfg("amp", FiberPhysicsCfg(0, None), ToyPhaseNumericsCfg(0), 4352),
      [kind |-> "treacy_grating", name |-> "stretcher", gdd_fs2 |-> 2] }

RECURSIVE SeqsUpTo(_, _)
SeqsUpTo(S, n) ==
    IF n = 0 THEN {<<>>}
    ELSE LET shorter == SeqsUpTo(S, n - 1)
         IN shorter \cup {Append(q, x) : q \in shorter, x \in S}

\* the stage lists given to PipelineConfig: absent, or explicit with up to MaxStages entries
StageLists == {None} \cup {Some(q) : q \in SeqsUpTo(StageAlphabet, MaxStages)}

\* execution policies: none, or stage-plot emission switched on
Policies == {None, Some(("cpa.emit_stage_plots" :> TRUE))}

\* the installation: optional packages present or absent
Environments == {[matplotlib |-> TRUE, gnlse |-> TRUE], [matplotlib |-> FALSE, gnlse |-> FALSE]}

\* _gaussian_state of tests/unit/stages/test_fiber_amp_wrap.py: a hand-built
\* input state with rep_rate_mhz in its metadata
gaussian_state(rep_rate_mhz) ==
    LET field_t == << <<4, 0>>, <<16, 0>>, <<16, 0>>, <<4, 0>> >>
        field_w == ToFreq(field_t)
    IN [pulse |-> PulseState(PulseGrid(<<-3, -1, 1, 3>>, AngularFrequencyGrid(4), 2, 2, 1030),
                             field_t, field_w, Abs2Arr(field_t), Abs2Arr(field_w)),
        beam |-> [radius_mm |-> 1, m2 |-> 1],
        meta |-> ("rep_rate_mhz" :> rep_rate_mhz),
        metrics |-> EmptyDict,
        artifacts |-> EmptyDict]

\* StageClass(cfg): a stage object constructed directly from its class
DirectStage(stage_cfg) ==
    [cls |-> CASE stage_cfg.kind = "fiber_amp_wrap" -> "FiberAmpWrapStage"
               [] stage_cfg.kind = "fiber" -> "FiberStage"
               [] stage_cfg.kind = "simple_gain" -> "SimpleGainStage"
               [] stage_cfg.kind = "toy_fiber_amp" -> "ToyFiberAmpStage"
               [] stage_cfg.kind = "standard" -> "StandardMetricsStage"
               [] OTHER -> "TreacyGratingStage",
     name |-> stage_cfg.name, cfg |-> stage_cfg]

-----------------------------------------------------------------------------
(* The run: run_pipeline and the sequential engine it drives *)

VARIABLES
    mode,         \* "run_pipeline", or "direct": a stage object called on a hand-built state
    cfg,          \* the PipelineConfig input
    policy,       \* the execution policy
    env,          \* which optional packages are installed
    run,          \* "first" or "second" call with the same inputs
    pc,           \* position of the call
    stages,       \* the stage objects of the built pipeline
    idx,          \* position in `stages` of the next stage to execute
    cur,          \* address of the current LaserState
    heap,         \* the objects
    fs,           \* files and directories created so far
    out_metrics,  \* the pipeline's accumulated, namespaced metrics
    result,       \* what the call returned: None until it returns
    error,        \* the exception in flight or propagated, None otherwise
    log,          \* one entry per process call: history of the run
    first,        \* outcome of the first call, kept for comparison with the second
    warned        \* the warnings emitted so far, oldest first

vars == <<mode, cfg, policy, env, run, pc, stages, idx, cur, heap, fs, out_metrics,
          result, error, log, first, warned>>

\* the state of a call that has not started
Fresh ==
    /\ stages = <<>>
    /\ idx = 0
    /\ cur = 0
    /\ heap = <<>>
    /\ out_metrics = EmptyDict
    /\ result = None
    /\ error = None
    /\ log = <<>>

Init ==
    /\ mode \in {"run_pipeline", "direct"}
    /\ \E seed \in Seeds, peak \in PeakPowers, list \in StageLists :
          /\ cfg = PipelineConfig(seed, LaserGenCfg(peak, 4), list)
          /\ mode = "direct" => list # None /\ Len(Get(list)) = 1
    /\ policy \in Policies
    /\ env \in Environments
    /\ run = "first"
    /\ pc = "input"
    /\ fs = {}
    /\ first = None
    /\ warned = <<>>
    /\ Fresh

\* PipelineConfig(...): pydantic validation at construction
Construct ==
    /\ pc = "input"
    /\ pc' = IF PipelineConfigValid(cfg) THEN "config" ELSE "rejected"
    /\ UNCHANGED <<mode, cfg, policy, env, run, stages, idx, cur, heap, fs, out_metrics,
                   result, error, log, first, warned>>

\* run_pipeline line 64: build_pipeline(cfg, policy=policy)
BuildPipeline ==
    /\ pc = "config" /\ mode = "run_pipeline"
    /\ LET b == build_pipeline(cfg) IN
          IF b.raised
          THEN /\ pc' = "raised"
               /\ error' = Some(b.error)
               /\ UNCHANGED stages
          ELSE /\ pc' = "built"
               /\ stages' = b.stages
               /\ UNCHANGED error
    /\ UNCHANGED <<mode, cfg, policy, env, run, idx, cur, heap, fs, out_metrics, result, log, first, warned>>

\* run_pipeline lines 65-71: hashes, provenance, the initial state
EmptyState ==
    /\ pc = "built"
    /\ \E now \in Times :
          heap' = NewState(<<>>, empty_state(cfg.runtime.seed, config_hash_of(cfg),
                                             hash_policy(policy), now))
    /\ cur' = Len(heap')
    /\ idx' = 1
    /\ out_metrics' = EmptyDict
    /\ pc' = "running"
    /\ UNCHANGED <<mode, cfg, policy, env, run, stages, fs, result, error, log, first, warned>>

\* a test harness: StageClass(cfg).process(_gaussian_state())
DirectCall ==
    /\ pc = "config" /\ mode = "direct"
    /\ stages' = <<DirectStage(Get(cfg.stages)[1])>>
    /\ heap' = NewState(<<>>, gaussian_state(2))
    /\ cur' = Len(heap')
    /\ idx' = 1
    /\ pc' = "running"
    /\ UNCHANGED <<mode, cfg, policy, env, run, fs, out_metrics, result, error, log, first, warned>>

\* stage.process(state, policy=policy)
process(stage, h, f, sid) ==
    CASE stage.cls = "AnalyticLaserGenStage" ->
            AnalyticLaserGenStage_process(stage.cfg, h, f, sid, policy, env)
      [] stage.cls = "TreacyGratingStage" ->
            TreacyGratingStage_process(stage.cfg, h, f, sid, policy, env)
      [] stage.cls = "FiberStage" -> FiberStage_process(stage.cfg, h, f, sid, policy, env)
      [] stage.cls = "SimpleGainStage" -> SimpleGainStage_process(stage.cfg, h, f, sid, policy, env)
      [] stage.cls = "FiberAmpWrapStage" ->
            FiberAmpWrapStage_process(stage.cfg, h, f, sid, policy, env)
      [] stage.cls = "ToyFiberAmpStage" ->
            ToyFiberAmpStage_process(stage.cfg, h, f, sid, policy, env)
      [] stage.cls = "StandardMetricsStage" ->
            StandardMetricsStage_process(stage.cfg, h, f, sid, policy, env)

\* the metrics of one stage under the pipeline's namespace: <pipeline>.<stage>.<key>
Namespaced(pipeline_name, stage_name, metrics) ==
    [key \in {<<pipeline_name, stage_name>> \o k : k \in DOMAIN metrics} |->
        metrics[SubSeq(key, 3, Len(key))]]

\* SequentialPipeline.run, one iteration: the stage was called and returned or
\* raised r; take its state, merge its metrics under the pipeline's namespace
RunStage(stage, r) ==
    /\ log' = Append(log, [pos |-> idx, name |-> stage.name, cls |-> stage.cls,
                           in |-> cur, inVal |-> Val(heap, cur), raised |-> r.raised,
                           out |-> IF r.raised THEN 0 ELSE r.state,
                           emitted |-> IF r.raised THEN EmptyDict ELSE r.metrics])
    /\ heap' = r.heap
    /\ fs' = r.fs
    /\ IF r.raised
       THEN /\ pc' = "raised"
            /\ error' = Some(r.error)
            /\ UNCHANGED <<cur, idx, out_metrics>>
       ELSE /\ cur' = r.state
            /\ idx' = idx + 1
            /\ out_metrics' = Update(out_metrics, Namespaced("cpa", stage.name, r.metrics))
            /\ UNCHANGED <<pc, error>>
    /\ UNCHANGED <<mode, cfg, policy, env, run, stages, result, first, warned>>

\* SequentialPipeline.run, the iteration at a stage of class cls
Process(cls) ==
    /\ pc = "running" /\ idx <= Len(stages) /\ stages[idx].cls = cls
    /\ RunStage(stages[idx], process(stages[idx], heap, fs, cur))

\* a plausible slip: the exception is swallowed and what was accumulated is handed back
Propagate_swallowed ==
    /\ pc = "raised"
    /\ pc' = "done"
    /\ result' = Some([state |-> cur, metrics |-> out_metrics])
    /\ UNCHANGED <<mode, cfg, policy, env, run, stages, idx, cur, heap, fs, out_metrics,
                   error, log, first, warned>>

\* run_pipeline has no handler around build_pipeline or pipeline.run (lines 64, 72):
\* the exception leaves run_pipeline and nothing is returned
Propagate ==
    /\ pc = "raised"
    /\ pc' = "failed"
    /\ UNCHANGED <<mode, cfg, policy, env, run, stages, idx, cur, heap, fs, out_metrics,
                   result, error, log, first, warned>>

\* pipeline.run returns after the last stage; run_pipeline lines 73-78 fill in
\* config_hash, seed and run_id on the returned state's metadata
Return ==
    /\ pc = "running" /\ idx > Len(stages) /\ mode = "run_pipeline"
    /\ LET meta0 == heap[heap[cur].meta]
           meta1 == SetDefault(meta0, "config_hash", config_hash_of(cfg))
           meta2 == SetDefault(meta1, "seed", cfg.runtime.seed)
           meta3 == SetDefault(meta2, "run_id",
                               IF "provenance" \in DOMAIN meta2
                               THEN Some(meta2["provenance"].run_id) ELSE None)
       IN heap' = SetPart(heap, cur, "meta", meta3)
    /\ result' = Some([state |-> cur, metrics |-> out_metrics])
    /\ pc' = "done"
    /\ UNCHANGED <<mode, cfg, policy, env, run, stages, idx, cur, fs, out_metrics,
                   error, log, first, warned>>

\* the directly called stage returned its StageResult
DirectReturn ==
    /\ pc = "running" /\ idx > Len(stages) /\ mode # "run_pipeline"
    /\ result' = Some([state |-> cur, metrics |-> log[Len(log)].emitted])
    /\ pc' = "done"
    /\ UNCHANGED <<mode, cfg, policy, env, run, stages, idx, cur, heap, fs, out_metrics,
                   error, log, first, warned>>

\* what a finished call leaves behind for its caller
Outcome ==
    [status |-> pc,
     error |-> error,
     result |-> IF result = None THEN None
                ELSE Some([state |-> Val(heap, Get(result).state),
                           metrics |-> Get(result).metrics])]

\* the caller makes a second, independent call with the same configuration and policy
SecondCall ==
    /\ run = "first" /\ pc \in {"done", "failed"}
    /\ first' = Some(Outcome)
    /\ run' = "second"
    /\ pc' = "config"
    /\ stages' = <<>>
    /\ idx' = 0
    /\ cur' = 0
    /\ heap' = <<>>
    /\ out_metrics' = EmptyDict
    /\ result' = None
    /\ error' = None
    /\ log' = <<>>
    /\ UNCHANGED <<mode, cfg, policy, env, fs, warned>>

Next ==
    \/ Construct
    \/ BuildPipeline
    \/ EmptyState
    \/ DirectCall
    \/ Process("AnalyticLaserGenStage")
    \/ Process("TreacyGratingStage")
    \/ Process("FiberStage")
    \/ Process("SimpleGainStage")
    \/ Process("FiberAmpWrapStage")
    \/ Process("StandardMetricsStage")
    \/ Propagate
    \/ Return
    \/ DirectReturn
    \/ SecondCall

Spec == Init /\ [][Next]_vars

-----------------------------------------------------------------------------
(* One stage on its own: a stage configuration is constructed, the stage     *)
(* object is built from its class and called on a hand-built state           *)

\* _gaussian_state(rep_rate_mhz=None): no repetition rate in the metadata
gaussian_state_no_rep_rate == [gaussian_state(2) EXCEPT !.meta = EmptyDict]

\* _gaussian_state(amplitude=0.0): a dark pulse
gaussian_state_dark ==
    [gaussian_state(2) EXCEPT
        !.pulse = [@ EXCEPT !.field_t = [k \in 1..4 |-> CZero],
                            !.field_w = [k \in 1..4 |-> CZero],
                            !.intensity_t = [k \in 1..4 |-> 0],
                            !.spectrum_w = [k \in 1..4 |-> 0]]]

\* test_non_uniform_grid_raises: one sample of the time grid is displaced
non_uniform_state ==
    [gaussian_state(2) EXCEPT !.pulse = [@ EXCEPT !.grid = [@ EXCEPT !.t = <<-3, -1, 1, 4>>]]]

\* a hand-built state whose metrics record a laser energy of zero
gaussian_state_zero_laser_energy ==
    [gaussian_state(2) EXCEPT !.metrics = (<<"laser", "energy_au">> :> 0)]

\* a hand-built state that records a laser energy and a reference whose spectrum has
\* another length than the pulse's
gaussian_state_amplified ==
    [gaussian_state(2) EXCEPT
       !.metrics = (<<"laser", "energy_au">> :> 272),
       !.meta = ("reference" :> [intensity_t |-> <<256, 1, 1, 256>>, spectrum_w |-> <<1, 1>>]) @@ @]

\* _generated_laser_state of tests/unit/stages/test_free_space_treacy.py, given
\* what the laser generator returned for the initial state
generated_state_of(r) == Val(r.heap, r.state)

\* _generated_laser_state: the laser generator's output for the initial state
generated_laser_state ==
    generated_state_of(
       AnalyticLaserGenStage_process(
          LaserGenCfg(512, 4),
          NewState(<<>>, empty_state(0, config_hash_of(PipelineConfig(0, LaserGenCfg(512, 4), None)),
                                     None, 1)),
          {}, 6, None, [matplotlib |-> TRUE, gnlse |-> TRUE]))

\* the hand-built input states
HandBuiltStates ==
    {gaussian_state(2), gaussian_state(0), gaussian_state_no_rep_rate, gaussian_state_dark,
     non_uniform_state, gaussian_state_zero_laser_energy, gaussian_state_amplified,
     generated_laser_state}

\* the stage configurations called on their own
StageCfgs ==
    { PhaseOnlyDispersionCfg("stretcher", 2, 6, TRUE),
      TreacyGratingPairCfg("compressor", 12, 6, -1, TRUE),
      TreacyGratingPairCfg("compressor", 22, 6, -1, TRUE),
      TreacyGratingPairCfg("compressor", 12, 6, -2, TRUE),
      TreacyGratingPairCfg("compressor", 16, 6, -1, TRUE),
      TreacyGratingPairCfg("compressor", 5, -6, 1, TRUE),
      FiberCfg("fiber", FiberPhysicsCfg(0, None), ToyPhaseNumericsCfg(4)),
      SimpleGainCfg("amp", 4),
      SimpleGainCfg("amp", 0),
      SimpleGainCfg("amp", -4),
      ToyFiberAmpCfg("toy_amp", Some(34816), None, 1, 0),
      ToyFiberAmpCfg("toy_amp", None, Some(12), 1, 1),
      ToyFiberAmpCfg("toy_amp", None, Some(24), 2, 0),
      ToyFiberAmpCfg("toy_amp", Some(0), None, 1, 0),
      ToyFiberAmpCfg("toy_amp", None, Some(12), 0, 0),
      ToyFiberAmpCfgLossy("toy_amp", 34816, 1, 0, 6, 2),
      ToyFiberAmpCfgLossy("toy_amp", 557056, 2, 1, 3, 4),
      FiberAmpWrapCfg("amp", FiberPhysicsCfg(0, None), ToyPhaseNumericsCfg(0), 4352),
      FiberAmpWrapCfg("amp", FiberPhysicsCfg(3, None), ToyPhaseNumericsCfg(4), 544),
      MetricsCfg }

InitStage ==
    /\ mode = "stage"
    /\ cfg \in StageCfgs
    /\ policy \in Policies
    /\ env \in Environments
    /\ run = "first"
    /\ pc = "input"
    /\ \E s \in HandBuiltStates : heap = NewState(<<>>, s)
    /\ cur = Len(heap)
    /\ stages = <<>>
    /\ idx = 0
    /\ fs = {}
    /\ out_metrics = EmptyDict
    /\ result = None
    /\ error = None
    /\ log = <<>>
    /\ first = None
    /\ warned = <<>>

\* StageCfg(...): pydantic validation of one stage configuration
StageConstruct ==
    /\ pc = "input" /\ mode = "stage"
    /\ pc' = IF cfg.kind = "toy_fiber_amp"
             THEN (IF ToyFiberAmpCfgValid(cfg) THEN "config" ELSE "rejected")
             ELSE (IF cfg.kind = "standard" \/ StageCfgValid(cfg) THEN "config" ELSE "rejected")
    /\ UNCHANGED <<mode, cfg, policy, env, run, stages, idx, cur, heap, fs, out_metrics,
                   result, error, log, first, warned>>

\* StageClass(cfg).process(state): the stage object is built and called
StageCall ==
    /\ pc = "config" /\ mode = "stage"
    /\ stages' = <<DirectStage(cfg)>>
    /\ idx' = 1
    /\ pc' = "running"
    /\ UNCHANGED <<mode, cfg, policy, env, run, cur, heap, fs, out_metrics, result, error,
                   log, first, warned>>

NextStage ==
    \/ StageConstruct
    \/ StageCall
    \/ Process("TreacyGratingStage")
    \/ Process("FiberStage")
    \/ Process("SimpleGainStage")
    \/ Process("ToyFiberAmpStage")
    \/ Process("StandardMetricsStage")
    \/ Process("FiberAmpWrapStage")
    \/ Propagate
    \/ DirectReturn

SpecStage == InitStage /\ [][NextStage]_vars

-----------------------------------------------------------------------------
(* The laser generator on its own: a PulseSpec is constructed from keyword   *)
(* arguments, its peak power is resolved, and AnalyticLaserGenStage is       *)
(* called on the initial state                                               *)

\* a keyword argument that is either omitted or given one of `values`
Opt(key, values) == {EmptyDict} \cup {key :> v : v \in values}

\* the keyword arguments given to PulseSpec
PulseKwargs ==
    {a @@ b @@ c @@ d @@ e @@ f @@ g @@ h @@ i @@ j :
        a \in Opt("amplitude", {2}),
        b \in Opt("avg_power_w", {Some(1100)}),
        c \in Opt("pulse_energy_j", {Some(2200)}),
        d \in Opt("peak_power_w", {Some(512), Some(-1)}),
        e \in Opt("width_fs", {2, 0}),
        f \in Opt("intensity_autocorr_fwhm_fs", {Some(3)}),
        g \in Opt("shape", {"sech2"}),
        h \in Opt("n_samples", {0}),
        i \in Opt("time_window_fs", {-6, 0}),
        j \in Opt("rep_rate_mhz", {2})}

InitLaser ==
    /\ mode = "laser_gen"
    /\ cfg \in [how : {"validate", "model_construct"}, kwargs : PulseKwargs]
    /\ policy = None
    /\ env = [matplotlib |-> TRUE, gnlse |-> TRUE]
    /\ run = "first"
    /\ pc = "input"
    /\ fs = {}
    /\ first = None
    /\ warned = <<>>
    /\ Fresh

\* PulseSpec(**kwargs), and the generator stage built from the accepted spec
LaserConstruct ==
    /\ pc = "input" /\ mode = "laser_gen" /\ cfg.how = "validate"
    /\ LET r == PulseSpec(cfg.kwargs) IN
          /\ warned' = warned \o r.warnings
          /\ IF r.raised
             THEN /\ pc' = "rejected"
                  /\ error' = Some(r.errors)
                  /\ UNCHANGED stages
             ELSE /\ pc' = "config"
                  /\ stages' = <<build_laser_gen_stage(LaserGenCfgOf(r.value)).stage>>
                  /\ UNCHANGED error
    /\ UNCHANGED <<mode, cfg, policy, env, run, idx, cur, heap, fs, out_metrics, result, log,
                   first>>

\* PulseSpec.model_construct(**kwargs): no validator runs
LaserModelConstruct ==
    /\ pc = "input" /\ mode = "laser_gen" /\ cfg.how = "model_construct"
    /\ stages' = <<build_laser_gen_stage(
                      LaserGenCfgOf(PulseSpec_model_construct(cfg.kwargs))).stage>>
    /\ pc' = "config"
    /\ UNCHANGED <<mode, cfg, policy, env, run, idx, cur, heap, fs, out_metrics, result, error,
                   log, first, warned>>

\* resolve_peak_power_w(pulse, width_fs=resolve_intensity_fwhm_fs(pulse))
LaserResolve ==
    /\ pc = "config" /\ mode = "laser_gen"
    /\ result' = Some(resolve_peak_power_w(stages[1].cfg.spec.pulse,
                                           resolve_intensity_fwhm_fs(stages[1].cfg.spec.pulse)))
    /\ pc' = "resolved"
    /\ UNCHANGED <<mode, cfg, policy, env, run, stages, idx, cur, heap, fs, out_metrics, error,
                   log, first, warned>>

\* the generator of a validated spec is about to be called on the initial state
LaserCall ==
    /\ pc = "config" /\ mode = "laser_gen" /\ cfg.how = "validate"
    /\ heap' = NewState(<<>>, empty_state(0, config_hash_of(stages[1].cfg), None, 1))
    /\ cur' = Len(heap')
    /\ idx' = 1
    /\ pc' = "running"
    /\ UNCHANGED <<mode, cfg, policy, env, run, stages, fs, out_metrics, result, error, log,
                   first, warned>>

NextLaser ==
    \/ LaserConstruct
    \/ LaserModelConstruct
    \/ LaserResolve
    \/ LaserCall
    \/ Process("AnalyticLaserGenStage")
    \/ Propagate
    \/ DirectReturn

SpecLaser == InitLaser /\ [][NextLaser]_vars

-----------------------------------------------------------------------------
(* Properties *)

\* the middle stage configurations a run is expected to use, in order
ExpectedMiddle ==
    IF cfg.stages = None THEN <<cfg.stretcher, cfg.fiber, cfg.amp, cfg.compressor>>
    ELSE Get(cfg.stages)

\* C1: the pipeline built for a configuration is the laser generator, then the
\* configured middle stages in declaration order (stretcher, fiber, amp,
\* compressor when no list is given), then the metrics stage; a run calls the
\* stages once each in list order, the k-th call on the state the (k-1)-th
\* returned, and a completed run has called them all.
C1_StageOrder ==
    (mode = "run_pipeline" /\ stages # <<>>) =>
        /\ Len(stages) = Len(ExpectedMiddle) + 2
        /\ stages[1].cfg = cfg.laser_gen
        /\ stages[Len(stages)].cfg = cfg.metrics
        /\ \A k \in 1..Len(ExpectedMiddle) :
              stages[k + 1].cfg = ExpectedMiddle[k] /\ stages[k + 1].name = ExpectedMiddle[k].name
        /\ Len(log) <= Len(stages)
        /\ \A k \in 1..Len(log) :
              /\ log[k].pos = k
              /\ log[k].name = stages[k].name
              /\ log[k].cls = stages[k].cls
              /\ k > 1 => (~log[k - 1].raised /\ log[k].in = log[k - 1].out)
        /\ pc = "done" => Len(log) = Len(stages)

\* C1 witness: a completed run of an explicit list of two different stages
C1_Witness ==
    /\ mode = "run_pipeline" /\ pc = "done"
    /\ cfg.stages # None
    /\ Len(ExpectedMiddle) = 2
    /\ ExpectedMiddle[1].kind = "simple_gain"
    /\ ExpectedMiddle[2].kind = "fiber"
    /\ Len(log) = 4

\* the run metadata without the fields that name the run and its creation time
Scrubbed(meta) ==
    [k \in DOMAIN meta |->
        IF k = "provenance" THEN [meta[k] EXCEPT !.run_id = 0, !.created_utc = 0]
        ELSE IF k = "run_id" THEN 0
        ELSE meta[k]]

\* C2: a second run_pipeline call with the same configuration and policy ends
\* as the first did; when both return, the final states have equal
\* hashable_repr and the result metrics maps are equal, and the two states
\* differ at most in the run id and the creation time of their metadata.
C2_Deterministic ==
    (mode = "run_pipeline" /\ run = "second" /\ pc \in {"done", "failed"}) =>
        /\ Get(first).status = pc
        /\ Get(first).error = error
        /\ pc = "done" =>
              LET a == Get(Get(first).result)
                  b == Get(Outcome.result)
              IN /\ hashable_repr(a.state) = hashable_repr(b.state)
                 /\ a.metrics = b.metrics
                 /\ a.state.artifacts = b.state.artifacts
                 /\ Scrubbed(a.state.meta) = Scrubbed(b.state.meta)

\* C2 witness: both runs completed, at different times
C2_Witness ==
    /\ mode = "run_pipeline" /\ run = "second" /\ pc = "done"
    /\ Len(log) >= 4
    /\ Get(Get(first).result).state.meta["provenance"].created_utc
          # Outcome.result[1].state.meta["provenance"].created_utc

\* C3: when construction or a stage's process raises, the error leaves
\* run_pipeline and nothing is returned; the raising call is the last call of
\* the run (no later stage runs, no stage is called twice); a run that returns
\* a result had no raising call.
C3_AllOrNothing ==
    /\ pc \in {"raised", "failed"} => (result = None /\ error # None)
    /\ pc = "done" => (result # None /\ error = None)
    /\ \A k \in 1..Len(log) :
          log[k].raised => (k = Len(log) /\ pc \in {"raised", "failed"})
    /\ \A j, k \in 1..Len(log) : log[j].pos = log[k].pos => j = k

\* C3 witness: a middle stage raised, with stages after it never called
C3_Witness ==
    /\ mode = "run_pipeline" /\ pc = "failed" /\ result = None
    /\ Len(log) >= 2 /\ log[Len(log)].raised
    /\ Len(log) + 1 < Len(stages)

\* C4: the state handed to the stage called k-th holds only metric keys that a
\* stage called before it emitted.
C4_NoLaterMetrics ==
    \A k \in 1..Len(log) :
        \A key \in DOMAIN log[k].inVal.metrics :
            \E j \in 1..(k - 1) : key \in DOMAIN log[j].emitted

\* C4 witness: the metrics stage was handed the laser generator's energy metric
C4_Witness ==
    \E k \in 1..Len(log) :
        /\ k >= 3
        /\ log[k].cls = "StandardMetricsStage"
        /\ <<"laser", "energy_au">> \in DOMAIN log[k].inVal.metrics
        /\ ~log[k].raised

\* C5: the object a stage was called on still holds what it held at the call,
\* whatever was done since to the stage's output or to later states, and the
\* returned object is another object sharing none of its components.
C5_InputUntouched ==
    \A k \in 1..Len(log) :
        /\ Val(heap, log[k].in) = log[k].inVal
        /\ ~log[k].raised =>
              /\ log[k].out # log[k].in
              /\ PartAddrs(heap, log[k].out) \cap PartAddrs(heap, log[k].in) = {}

\* C5 witness: FiberAmpWrapStage.process returned
C5_Witness ==
    /\ pc = "done"
    /\ \E k \in 1..Len(log) : log[k].cls = "FiberAmpWrapStage" /\ ~log[k].raised

\* C6: in every state a stage returned, intensity_t is |field_t|^2 and
\* spectrum_w is |field_w|^2 of the arrays stored in that state.
C6_DerivedArrays ==
    \A k \in 1..Len(log) :
        ~log[k].raised =>
            LET p == heap[heap[log[k].out].pulse]
            IN /\ p.intensity_t = Abs2Arr(p.field_t)
               /\ p.spectrum_w = Abs2Arr(p.field_w)

\* C6 witness: a gain stage and a dispersive stage both changed the field
C6_Witness ==
    /\ pc = "done" /\ mode = "run_pipeline"
    /\ \E j, k \in 1..Len(log) :
          /\ log[j].cls = "SimpleGainStage"
          /\ log[k].cls = "TreacyGratingStage"
          /\ heap[heap[log[j].out].pulse].field_t # log[j].inVal.pulse.field_t
          /\ heap[heap[log[k].out].pulse].field_w # log[k].inVal.pulse.field_w

\* the prefix a stage puts before the metric names it emits
MetricPrefix(stage) ==
    CASE stage.cls = "AnalyticLaserGenStage" -> "laser"
      [] stage.cls = "StandardMetricsStage" -> "summary"
      [] OTHER -> stage.name

\* C7 as stated: every key of the returned metrics map is
\* cpa.<stage-name>.<stage-name>.<metric>, the laser generator's and the
\* metrics stage's keys included.
C7_DoubledStageName ==
    (mode = "run_pipeline" /\ pc = "done") =>
        \A key \in DOMAIN Get(result).metrics :
            /\ Len(key) = 4
            /\ key[1] = "cpa"
            /\ key[2] = key[3]
            /\ \E k \in 1..Len(stages) : stages[k].name = key[2]

\* C7 amended: every key of the accumulated and of the returned metrics map is
\* cpa.<stage-name>.<prefix>.<metric>, where <stage-name> names a stage of the
\* pipeline and <prefix> is that name for a middle stage, "laser" for the laser
\* generator and "summary" for the metrics stage.
C7_KeyShape ==
    mode = "run_pipeline" =>
        /\ \A key \in DOMAIN out_metrics :
              /\ Len(key) = 4
              /\ key[1] = "cpa"
              /\ \E k \in 1..Len(stages) :
                    stages[k].name = key[2] /\ key[3] = MetricPrefix(stages[k])
        /\ pc = "done" => Get(result).metrics = out_metrics

\* C7 witness: a returned map with keys of the laser generator, a middle stage
\* and the metrics stage
C7_Witness ==
    /\ mode = "run_pipeline" /\ pc = "done"
    /\ {<<"cpa", "laser_init", "laser", "energy_au">>,
        <<"cpa", "fiber_only", "fiber_only", "b_integral_proxy_rad">>,
        <<"cpa", "metrics", "summary", "energy_au">>} \subseteq DOMAIN Get(result).metrics

\* C8 as stated: after a completed run, for every stage and every key k it
\* emitted, the final state's metrics hold under k the value the result's
\* metrics hold under cpa.<stage name>.<k>.
C8_ViewsAgree ==
    (mode = "run_pipeline" /\ pc = "done") =>
        \A k \in 1..Len(log) :
            \A key \in DOMAIN log[k].emitted :
                Val(heap, Get(result).state).metrics[key]
                   = Get(result).metrics[<<"cpa", log[k].name>> \o key]

C10_BuildSucceeds ==
    ~(mode = "run_pipeline" /\ pc \in {"raised", "failed"} /\ stages = <<>>)

\* the explicitly set power inputs of the keyword arguments kw
ExplicitPower(kw) == {"peak_power_w", "pulse_energy_j", "avg_power_w", "amplitude"} \cap DOMAIN kw

\* the explicitly set width inputs of the keyword arguments kw
ExplicitWidth(kw) == {"width_fs", "intensity_autocorr_fwhm_fs"} \cap DOMAIN kw

\* C11: PulseSpec(**kw) fails when more than one of peak_power_w, pulse_energy_j,
\* avg_power_w, amplitude is explicitly set, and fails when both width_fs and
\* intensity_autocorr_fwhm_fs are explicitly set.  When every supplied value passes
\* its own field validator, amplitude together with another power input, two or
\* more non-legacy power inputs, and both widths are reported with three different
\* messages; amplitude as the only power input is accepted with the deprecation
\* warning, and no power input at all is accepted without it.
C11_ExclusiveInputs ==
    (mode = "laser_gen" /\ cfg.how = "validate" /\ pc # "input") =>
        LET P == ExplicitPower(cfg.kwargs)
            W == ExplicitWidth(cfg.kwargs)
            deprecation == "DeprecationWarning: PulseSpec.amplitude is deprecated"
            deprecated == \E k \in 1..Len(warned) : warned[k] = deprecation
        IN /\ (Cardinality(P) > 1 \/ Cardinality(W) > 1) => (pc = "rejected" /\ error # None)
           /\ PulseSpec_field_errors(cfg.kwargs) = <<>> =>
                /\ ("amplitude" \in P /\ Cardinality(P) > 1) =>
                      error = Some(<<"PulseSpec.amplitude cannot be set together">>)
                /\ ("amplitude" \notin P /\ Cardinality(P) > 1) =>
                      error = Some(<<"Exactly one pulse normalization input may be explicitly set">>)
                /\ (Cardinality(P) <= 1 /\ Cardinality(W) > 1) =>
                      error = Some(<<"Only one pulse width input may be explicitly set">>)
                /\ (P = {"amplitude"} /\ Cardinality(W) <= 1) =>
                      (pc # "rejected" /\ stages # <<>> /\ deprecated)
                /\ (P = {} /\ Cardinality(W) <= 1) =>
                      (pc # "rejected" /\ stages # <<>> /\ ~deprecated)

\* C11 witness: amplitude given together with an average power was rejected with
\* the message of the legacy class
C11_Witness ==
    /\ mode = "laser_gen" /\ cfg.how = "validate" /\ pc = "rejected"
    /\ {"amplitude", "avg_power_w"} \subseteq DOMAIN cfg.kwargs
    /\ error = Some(<<"PulseSpec.amplitude cannot be set together">>)

\* the peak power the precedence rule selects for pulse specification p of width w
FirstMatchPeakPower(p, w) ==
    IF p.peak_power_w # None THEN [raised |-> FALSE, value |-> Get(p.peak_power_w)]
    ELSE IF p.pulse_energy_j # None
      THEN peak_power_w_from_energy_j(Get(p.pulse_energy_j), w, p.shape)
    ELSE IF p.avg_power_w # None
      THEN peak_power_w_from_energy_j(Get(p.avg_power_w) \div p.rep_rate_mhz, w, p.shape)
    ELSE IF "amplitude" \in p.model_fields_set
      THEN [raised |-> FALSE, value |-> p.amplitude * p.amplitude]
    ELSE [raised |-> FALSE, value |-> 1]

\* C12: resolve_peak_power_w returns the first available of: the explicit peak
\* power; the pulse energy (explicit, else average power over repetition rate)
\* converted by the peak-from-energy formula of the shape; the explicitly set
\* amplitude squared; 1.  Inputs of lower priority than the first available one
\* have no effect on the result.
C12_PeakPowerPrecedence ==
    (mode = "laser_gen" /\ pc = "resolved") =>
        Get(result) = FirstMatchPeakPower(stages[1].cfg.spec.pulse,
                                          resolve_intensity_fwhm_fs(stages[1].cfg.spec.pulse))

\* C12 witness: a specification carrying an energy, an average power and an explicit
\* amplitude but no peak power was resolved from the energy alone
C12_Witness ==
    /\ mode = "laser_gen" /\ pc = "resolved"
    /\ stages[1].cfg.spec.pulse.peak_power_w = None
    /\ stages[1].cfg.spec.pulse.pulse_energy_j = Some(2200)
    /\ stages[1].cfg.spec.pulse.avg_power_w = Some(1100)
    /\ "amplitude" \in stages[1].cfg.spec.pulse.model_fields_set
    /\ stages[1].cfg.spec.pulse.shape = "gaussian"
    /\ stages[1].cfg.spec.pulse.width_fs = 2
    /\ Get(result) = [raised |-> FALSE, value |-> 1032]

\* C13 as stated: a pulse specification with a non-positive width, time window or
\* sample count never gets as far as a generated pulse.
C13_NonPositiveRejected ==
    (mode = "laser_gen" /\ cfg.how = "validate" /\ pc = "done") =>
        /\ stages[1].cfg.spec.pulse.width_fs > 0
        /\ stages[1].cfg.spec.pulse.time_window_fs > 0
        /\ stages[1].cfg.spec.pulse.n_samples > 0

\* C14: a fiber configuration whose physics gives neither gamma_1_per_w_m nor
\* both n2_m2_per_w and aeff_m2 is refused when it is constructed; it is never
\* first detected while the pipeline executes, so no call ends with the
\* missing-gamma error of _resolve_gamma.
C14_GammaCheckedAtConstruction ==
    (mode = "run_pipeline" /\ pc \in {"raised", "failed"}) =>
        error # Some("ValueError: Fiber physics must provide gamma_1_per_w_m")

\* the stage list of the configuration has an entry of the legacy flat shape:
\* kind 'treacy_grating' with a bare gdd_fs2
HasLegacyFreeSpace(c) ==
    /\ c.stages # None
    /\ \E i \in 1..Len(Get(c.stages)) : Get(c.stages)[i].kind = "treacy_grating"

\* C15: constructing a PipelineConfig with a free-space stage of the legacy
\* flat shape (kind 'treacy_grating', bare gdd_fs2) succeeds, and a
\* DeprecationWarning is emitted while it is constructed.
C15_LegacyMigrated ==
    (HasLegacyFreeSpace(cfg) /\ pc # "input") => (pc # "rejected" /\ warned # <<>>)

\* the single call of a stage of class cls on its own has been made
StageCalled(cls) == mode = "stage" /\ Len(log) = 1 /\ log[1].cls = cls

\* the metadata of v carries a positive repetition rate
HasRepRate(v) == "rep_rate_mhz" \in DOMAIN v.meta /\ v.meta["rep_rate_mhz"] > 0

\* the input average power ToyFiberAmpStage resolves from the state it is given
ToyInputPower(v) ==
    Sum(Abs2Arr(v.pulse.field_t)) * v.pulse.grid.dt * v.meta["rep_rate_mhz"]

\* the call raised `message`, and neither the input state's envelope nor the
\* copy's was advanced by a sub-step
ToyRaisedBeforePropagation(message) ==
    /\ log[1].raised
    /\ error = Some(message)
    /\ \A sid \in {log[1].in, Len(heap)} :
          heap[heap[sid].pulse].field_t = log[1].inVal.pulse.field_t

\* C16 as stated: ToyFiberAmpStage raises a ValueError of its own for missing
\* repetition-rate metadata, for a non-positive resolved input average power
\* and for a non-positive resolved net gain, whenever the condition holds and
\* before the first sub-step.
C16_ToyAmpFailures_AsStated ==
    StageCalled("ToyFiberAmpStage") =>
        LET v == log[1].inVal IN
        /\ "rep_rate_mhz" \notin DOMAIN v.meta =>
              ToyRaisedBeforePropagation(
                 "ValueError: ToyFiberAmpStage requires meta['rep_rate_mhz'] populated by laser stage.")
        /\ (HasRepRate(v) /\ ToyInputPower(v) <= 0) =>
              ToyRaisedBeforePropagation(
                 "ValueError: ToyFiberAmpStage could not compute amp_power_w mapping because input average power is not positive.")

\* C16, amended: missing repetition-rate metadata always raises its own
\* ValueError, and so does a repetition rate that is not positive; when the gain is resolved from amp_power_w, a non-positive input
\* average power and a non-positive net gain each raise their own ValueError;
\* the first condition that holds, in this order, is the one reported, and it is
\* raised before the first sub-step. With gain_db given directly the input
\* power is not checked.
C16_ToyAmpFailures ==
    StageCalled("ToyFiberAmpStage") =>
        LET v == log[1].inVal
            c == stages[1].cfg
        IN
        /\ "rep_rate_mhz" \notin DOMAIN v.meta =>
              ToyRaisedBeforePropagation(
                 "ValueError: ToyFiberAmpStage requires meta['rep_rate_mhz'] populated by laser stage.")
        /\ ("rep_rate_mhz" \in DOMAIN v.meta /\ ~HasRepRate(v)) =>
              ToyRaisedBeforePropagation("ValueError: ToyFiberAmpStage requires rep_rate_mhz > 0.")
        /\ (HasRepRate(v) /\ c.amp_power_w # None /\ ToyInputPower(v) <= 0) =>
              ToyRaisedBeforePropagation(
                 "ValueError: ToyFiberAmpStage could not compute amp_power_w mapping because input average power is not positive.")
        /\ (HasRepRate(v) /\ c.amp_power_w # None
               /\ ToyInputPower(v) > 0 /\ Get(c.amp_power_w) <= 0) =>
              ToyRaisedBeforePropagation(
                 "ValueError: ToyFiberAmpStage computed non-positive net gain from amp_power_w.")
        /\ (HasRepRate(v) /\ c.amp_power_w = None /\ c.gain_db # None) =>
              ~log[1].raised

\* C16 witness: a target power on a dark input was refused before propagation
C16_Witness ==
    /\ StageCalled("ToyFiberAmpStage") /\ pc = "failed"
    /\ stages[1].cfg.amp_power_w # None
    /\ HasRepRate(log[1].inVal)
    /\ ToyInputPower(log[1].inVal) <= 0
    /\ error = Some("ValueError: ToyFiberAmpStage could not compute amp_power_w mapping because input average power is not positive.")

\* the first computation of _compute_treacy_metrics that is out of its domain for
\* the geometry c, in the order Littrow angle, diffraction angle, GDD radical,
\* TOD denominator; "none" when the geometry is valid
TreacyFailure(c) ==
    LET r10 == c.lambda_over_d10
        diff10 == (-c.diffraction_order) * r10 - c.sin_incidence10
    IN IF r10 > 20 \/ r10 < -20
         THEN "ValueError: Invalid asin domain for littrow angle"
       ELSE IF diff10 > 10 \/ diff10 < -10
         THEN "ValueError: Invalid asin domain for diffraction angle"
       ELSE IF diff10 * diff10 >= 100
         THEN "ValueError: GDD radical argument must be > 0"
       ELSE IF (r10 - c.sin_incidence10) * (r10 - c.sin_incidence10) >= 100
         THEN "ValueError: TOD denominator must be > 0"
       ELSE "none"

\* C17: a grating-pair geometry with an inverse-sine argument outside [-1, 1]
\* (Littrow or diffraction angle), a GDD radical argument <= 0 or a TOD
\* denominator <= 0 makes process raise the ValueError that names the first
\* failing computation, and no result is returned; a valid geometry does not raise.
C17_TreacyDomainErrors ==
    (StageCalled("TreacyGratingStage") /\ cfg.kind = "treacy_grating_pair") =>
        IF TreacyFailure(cfg) = "none"
        THEN ~log[1].raised /\ error = None
        ELSE log[1].raised /\ error = Some(TreacyFailure(cfg)) /\ result = None

\* C17 witness: the geometry whose diffraction sine is exactly 1 passed both
\* inverse sines and was refused at the GDD radical
C17_Witness ==
    /\ StageCalled("TreacyGratingStage") /\ pc = "failed"
    /\ cfg.kind = "treacy_grating_pair"
    /\ (-cfg.diffraction_order) * cfg.lambda_over_d10 - cfg.sin_incidence10 = 10
    /\ error = Some("ValueError: GDD radical argument must be > 0")
    /\ result = None

\* C18: a non-positive power gain of the simple-gain amplifier is reported as
\* an error, when the configuration is constructed or when the stage is
\* called; the stage never returns a result for such a gain.
C18_NonPositiveGainRejected ==
    (mode = "stage" /\ cfg.kind = "simple_gain" /\ cfg.gain_linear <= 0 /\ pc # "input") =>
        /\ result = None
        /\ Len(log) = 1 => log[1].raised

\* C19: every stage that transforms the pulse between the time and the
\* frequency domain raises on a time grid that is not uniformly spaced, before
\* any transform is applied.
C19_UniformGridChecked ==
    (mode = "stage" /\ Len(log) = 1 /\ ~uniform_spacing(log[1].inVal.pulse.grid.t)) =>
        log[1].raised

\* the policy switches stage-plot emission on
EmitsStagePlots(p) ==
    policy_get(p, "cpa.emit_stage_plots", FALSE) \/ policy_get(p, "emit_stage_plots", FALSE)

\* C20: with matplotlib installed, the final state of a run holds
\* '<stage-name>.plot_time_intensity' and '<stage-name>.plot_spectrum' for
\* every stage of the run exactly when the policy enables stage-plot emission;
\* without it no plot artifact is recorded and nothing is created on disk.
C20_PlotsForEveryStage ==
    (mode = "run_pipeline" /\ pc = "done" /\ env.matplotlib) =>
        LET artifacts == heap[heap[Get(result).state].artifacts] IN
        /\ \A i \in 1..Len(stages) :
              /\ <<stages[i].name, "plot_time_intensity">> \in DOMAIN artifacts
                    <=> EmitsStagePlots(policy)
              /\ <<stages[i].name, "plot_spectrum">> \in DOMAIN artifacts
                    <=> EmitsStagePlots(policy)
        /\ ~EmitsStagePlots(policy) => fs = {}

\* ---- summary metrics: amplification ratio and shape similarities ----

\* the summary metrics a returned metrics stage emitted
SummaryOf(e) == e.emitted

\* the laser energy the metrics stage finds in the metrics of its input
LaserEnergyOf(v) == DictGet(v.metrics, <<"laser", "energy_au">>, 0)

\* the reference arrays the metrics stage finds in the meta of its input
ReferenceOf(v) == DictGet(v.meta, "reference", [intensity_t |-> <<>>, spectrum_w |-> <<>>])

\* a similarity score is 0 when the lengths differ and lies in [0, 1] otherwise
SimilarityAsStated(score, reference, candidate) ==
    /\ Len(reference) # Len(candidate) => score = 0
    /\ score \in 0..10

\* C21: whenever the metrics stage returns, the amplification ratio it reports is the
\* final energy over the recorded laser energy, and exactly 0 when that energy is not
\* positive or not recorded; each similarity score is exactly 0 when the reference and
\* the pulse array differ in length and lies in [0, 1] otherwise
C21_RatioAndSimilarity ==
    \A k \in 1..Len(log) :
       (log[k].cls = "StandardMetricsStage" /\ ~log[k].raised) =>
          /\ SummaryOf(log[k])[<<"summary", "amplification_ratio">>]
               = IF LaserEnergyOf(log[k].inVal) <= 0 THEN 0
                 ELSE (100 * SummaryOf(log[k])[<<"summary", "energy_au">>])
                         \div LaserEnergyOf(log[k].inVal)
          /\ SimilarityAsStated(SummaryOf(log[k])[<<"summary", "temporal_shape_similarity">>],
                                ReferenceOf(log[k].inVal).intensity_t,
                                log[k].inVal.pulse.intensity_t)
          /\ SimilarityAsStated(SummaryOf(log[k])[<<"summary", "spectral_shape_similarity">>],
                                ReferenceOf(log[k].inVal).spectrum_w,
                                log[k].inVal.pulse.spectrum_w)

\* the metrics stage returned for a state that records a laser energy of zero
C21_Witness ==
    /\ StageCalled("StandardMetricsStage")
    /\ ~log[1].raised
    /\ <<"laser", "energy_au">> \in DOMAIN log[1].inVal.metrics
    /\ LaserEnergyOf(log[1].inVal) = 0
    /\ SummaryOf(log[1])[<<"summary", "amplification_ratio">>] = 0

\* ---- power-target wrapper: delivered power ----

\* C22: whenever FiberAmpWrapStage returns for an accepted FiberAmpWrapCfg, the
\* average output power it reports under <name>.power_out_avg_w equals the target
\* power_out_w of its configuration, whatever the intrinsic loss and the numerics
\* backend.
C22_PowerTargetDelivered ==
    (StageCalled("FiberAmpWrapStage") /\ ~log[1].raised) =>
        log[1].emitted[<<cfg.name, "power_out_avg_w">>] = cfg.power_out_w

\* ---- toy amplifier: target power ----

\* the model's arithmetic is exact for the target: it is the input power times a
\* power of two that the 2 * n_steps half steps share in whole doublings of the
\* amplitude
OnGainLadder(target, power_in, n_steps) ==
    \E e \in 0..2 : target = power_in * Pow2(4 * n_steps * e)

\* C23: when amp_power_w is set and ToyFiberAmpStage returns, the gain it applies
\* is 10 log10(amp_power_w / input average power) + loss_db_per_m * length_m,
\* and the net gain of its n_steps sub-steps brings the average output power to
\* amp_power_w, for every loss, length and step count
C23_TargetPowerReached ==
    (StageCalled("ToyFiberAmpStage") /\ ~log[1].raised /\ cfg.amp_power_w # None) =>
        /\ log[1].emitted[<<cfg.name, "gain_db_applied">>]
              = TenLog10(Get(cfg.amp_power_w), ToyInputPower(log[1].inVal))
                  + cfg.loss_db_per_m * cfg.length_m
        /\ OnGainLadder(Get(cfg.amp_power_w), ToyInputPower(log[1].inVal), cfg.n_steps)
              => log[1].emitted[<<cfg.name, "power_out_avg_w">>] = Get(cfg.amp_power_w)

\* a lossy amplifier of two sub-steps reached its target power
C23_Witness ==
    /\ StageCalled("ToyFiberAmpStage") /\ ~log[1].raised
    /\ cfg.amp_power_w # None /\ cfg.loss_db_per_m > 0 /\ cfg.n_steps = 2
    /\ Get(cfg.amp_power_w) > ToyInputPower(log[1].inVal)
    /\ log[1].emitted[<<cfg.name, "power_out_avg_w">>] = Get(cfg.amp_power_w)

\* ---- phase-only dispersion: magnitude and energy ----

\* the stage at entry e of the log applies its spectral phase to the pulse
AppliesPhase(e) ==
    /\ e.cls = "TreacyGratingStage" /\ ~e.raised
    /\ "apply_to_pulse" \in DOMAIN stages[e.pos].cfg
    /\ stages[e.pos].cfg.apply_to_pulse

\* the two envelopes of pulse p are transforms of each other in the integer
\* arithmetic of the model: the division by N of the inverse transform was exact
TransformPair(p) == \A k \in 1..Len(p.field_w) : ToFreq(p.field_t)[k] = p.field_w[k]

\* C24: a dispersion stage that applies its phase to the pulse leaves the
\* magnitude of field_w unchanged at every sample and the total energy
\* sum(intensity_t) * dt unchanged (the energy is compared where the inverse
\* transform of the model is exact)
C24_PhaseOnlyPreserves ==
    \A k \in 1..Len(log) :
       AppliesPhase(log[k]) =>
          /\ Abs2Arr(Val(heap, log[k].out).pulse.field_w) = Abs2Arr(log[k].inVal.pulse.field_w)
          /\ (TransformPair(log[k].inVal.pulse) /\ TransformPair(Val(heap, log[k].out).pulse)) =>
             EnergyAu(Val(heap, log[k].out).pulse.intensity_t, Val(heap, log[k].out).pulse.grid.dt)
                = EnergyAu(log[k].inVal.pulse.intensity_t, log[k].inVal.pulse.grid.dt)

\* a grating pair changed the spectral envelope of a pulse of non-zero energy and
\* kept its energy
C24_Witness ==
    /\ StageCalled("TreacyGratingStage") /\ AppliesPhase(log[1])
    /\ cfg.kind = "treacy_grating_pair"
    /\ Val(heap, log[1].out).pulse.field_w # log[1].inVal.pulse.field_w
    /\ TransformPair(log[1].inVal.pulse) /\ TransformPair(Val(heap, log[1].out).pulse)
    /\ EnergyAu(log[1].inVal.pulse.intensity_t, log[1].inVal.pulse.grid.dt) > 0
    /\ EnergyAu(Val(heap, log[1].out).pulse.intensity_t, Val(heap, log[1].out).pulse.grid.dt)
          = EnergyAu(log[1].inVal.pulse.intensity_t, log[1].inVal.pulse.grid.dt)

\* ---- provenance: what the run id is derived from ----

\* the provenance record of the current state
ProvenanceOf(v) == v.meta["provenance"]

\* the run id from_seed_and_hash would give with these four ingredients
RunIdOf(seed, config_hash, policy_hash, now) ==
    from_seed_and_hash(seed, config_hash, policy_hash, now).run_id

\* a configuration other than c
OtherConfig(c) == [c EXCEPT !.stages = IF @ = None THEN Some(<<>>) ELSE None]

\* C25: the run id of the provenance record is derived from all four of the
\* configuration hash, the policy hash, the seed and the creation timestamp:
\* changing any one of them, the other three kept, changes the run id
C25_RunIdFromAllFour ==
    (mode = "run_pipeline" /\ pc \in {"running", "done"}) =>
        /\ \A now \in Times \ {ProvenanceOf(Val(heap, cur)).created_utc} :
              RunIdOf(cfg.runtime.seed, config_hash_of(cfg), hash_policy(policy), now)
                 # ProvenanceOf(Val(heap, cur)).run_id
        /\ \A seed \in (0..1) \ {cfg.runtime.seed} :
              RunIdOf(seed, config_hash_of(cfg), hash_policy(policy),
                      ProvenanceOf(Val(heap, cur)).created_utc)
                 # ProvenanceOf(Val(heap, cur)).run_id
        /\ RunIdOf(cfg.runtime.seed, config_hash_of(OtherConfig(cfg)), hash_policy(policy),
                   ProvenanceOf(Val(heap, cur)).created_utc)
              # ProvenanceOf(Val(heap, cur)).run_id
        /\ \A p \in Policies \ {policy} :
              RunIdOf(cfg.runtime.seed, config_hash_of(cfg), hash_policy(p),
                      ProvenanceOf(Val(heap, cur)).created_utc)
                 # ProvenanceOf(Val(heap, cur)).run_id

-----------------------------------------------------------------------------
(* The grid policy on its own: the size _apply_grid_policy chooses for a      *)
(* field of a given size (src/cpa_sim/stages/fiber/backends/wust_gnlse.py)    *)

\* largest field size handed to the grid policy
MaxGridSize == 48

\* the numerics configurations handed to the grid policy
GridNumerics ==
    { WustGnlseNumericsCfg("force_pow2", None),
      WustGnlseNumericsCfg("use_state", None),
      WustGnlseNumericsCfg("force_resolution", Some(26)),
      WustGnlseNumericsCfg("force_resolution", None) }

\* mode "grid": cfg holds the numerics and the size of the field
InitGrid ==
    /\ mode = "grid"
    /\ cfg \in [numerics : GridNumerics, size : 0..MaxGridSize]
    /\ policy = None
    /\ env \in Environments
    /\ run = "first"
    /\ pc = "input"
    /\ heap = <<>>
    /\ cur = 0
    /\ stages = <<>>
    /\ idx = 0
    /\ fs = {}
    /\ out_metrics = EmptyDict
    /\ result = None
    /\ error = None
    /\ log = <<>>
    /\ first = None
    /\ warned = <<>>

\* _apply_grid_policy raises: nearest_power_of_two on an empty field, or
\* force_resolution without resolution_override
GridPolicyRaises ==
    /\ mode = "grid" /\ pc = "input"
    /\ \/ cfg.numerics.grid_policy = "force_pow2" /\ cfg.size < 1
       \/ cfg.numerics.grid_policy = "force_resolution" /\ cfg.numerics.resolution_override = None
    /\ error' = Some(IF cfg.numerics.grid_policy = "force_pow2"
                     THEN "ValueError: Grid size must be >= 1"
                     ELSE "ValueError: resolution_override is required")
    /\ pc' = "failed"
    /\ UNCHANGED <<mode, cfg, policy, env, run, stages, idx, cur, heap, fs, out_metrics,
                   result, log, first, warned>>

\* _apply_grid_policy returns: the number of points chosen, the warning and the
\* artifacts it records
GridPolicyReturns ==
    /\ mode = "grid" /\ pc = "input"
    /\ ~(cfg.numerics.grid_policy = "force_pow2" /\ cfg.size < 1)
    /\ ~(cfg.numerics.grid_policy = "force_resolution" /\ cfg.numerics.resolution_override = None)
    /\ result' = Some([n_points |-> grid_policy_points(cfg.numerics, cfg.size),
                       grid_large_prime_factor |->
                          has_large_prime_factor(grid_policy_points(cfg.numerics, cfg.size)),
                       resampled |-> grid_policy_points(cfg.numerics, cfg.size) # cfg.size])
    /\ warned' = IF has_large_prime_factor(grid_policy_points(cfg.numerics, cfg.size))
                 THEN Append(warned, "UserWarning: large prime factor") ELSE warned
    /\ pc' = "done"
    /\ UNCHANGED <<mode, cfg, policy, env, run, stages, idx, cur, heap, fs, out_metrics,
                   error, log, first>>

NextGrid == GridPolicyRaises \/ GridPolicyReturns

SpecGrid == InitGrid /\ [][NextGrid]_vars

\* p is a power of two
IsPowerOfTwo(p) == \E k \in 0..MaxLog2 : p = Pow2(k)

\* the distance of a and b
Distance(a, b) == IF a >= b THEN a - b ELSE b - a

\* C26: under force_pow2 the size chosen for a field of n >= 1 samples is a power
\* of two nearest to n: no power of two is closer to n than the one chosen
C26_NearestPowerOfTwo ==
    (mode = "grid" /\ pc = "done" /\ cfg.numerics.grid_policy = "force_pow2") =>
        /\ IsPowerOfTwo(Get(result).n_points)
        /\ \A k \in 0..MaxLog2 :
              Distance(Get(result).n_points, cfg.size) <= Distance(Pow2(k), cfg.size)

-----------------------------------------------------------------------------
(* The sampling policy on its own: validate_pulse_sampling called on an       *)
(* accepted PulseSpec (src/cpa_sim/models/config.py)                          *)

\* the first sampling check: dt_fs > width_fs / min_points_per_fwhm, with
\* dt_fs = time_window_fs / (n_samples - 1), for n_samples >= 2 and width_fs > 0
dt_exceeds(time_window_fs, n_samples, width_fs, min_points_per_fwhm) ==
    time_window_fs * min_points_per_fwhm > width_fs * (n_samples - 1)

\* 1000 / (omega_scale * width_fs): 2 sqrt(2 ln 2) for a gaussian, 2 acosh(sqrt 2)
\* for sech2, in thousandths
omega_scale_width1000(shape) == IF shape = "gaussian" THEN 2355 ELSE 1763

\* validate_pulse_sampling, lines 50-91: the messages of the checks that fail, in
\* the order of the code
sampling_messages(pulse, min_points_per_fwhm, nyquist_margin, min_window_fwhm_ratio) ==
    (IF dt_exceeds(pulse.time_window_fs, pulse.n_samples, pulse.width_fs, min_points_per_fwhm)
     THEN <<"Pulse sampling policy violated: dt_fs must satisfy dt_fs <= width_fs / N_min.">>
     ELSE <<>>)
    \o (IF pulse.time_window_fs < min_window_fwhm_ratio * pulse.width_fs
        THEN <<"Pulse time window may be too tight for clean FFT tails">>
        ELSE <<>>)
    \o (IF 3142 * pulse.width_fs * (pulse.n_samples - 1)
             < nyquist_margin * omega_scale_width1000(pulse.shape) * pulse.time_window_fs
        THEN <<"Pulse spectral Nyquist margin is low for the requested pulse shape">>
        ELSE <<>>)

\* validate_pulse_sampling, given the messages of the failing checks: strict
\* raises the first, otherwise each is a warning
sampling_outcome(messages, strict) ==
    IF strict /\ messages # <<>>
    THEN [raised |-> TRUE, error |-> "ValueError: " \o messages[1], warnings |-> <<>>]
    ELSE [raised |-> FALSE,
          warnings |-> [k \in 1..Len(messages) |-> "UserWarning: " \o messages[k]]]

\* validate_pulse_sampling for a pulse of positive time window
validate_pulse_sampling(pulse, min_points_per_fwhm, nyquist_margin, min_window_fwhm_ratio, strict) ==
    IF pulse.n_samples < 2
    THEN [raised |-> TRUE, warnings |-> <<>>,
          error |-> "ValueError: PulseSpec.n_samples must be >= 2 for sampling checks."]
    ELSE sampling_outcome(
            sampling_messages(pulse, min_points_per_fwhm, nyquist_margin,
                              min_window_fwhm_ratio),
            strict)

\* the keyword arguments of the pulses handed to the sampling policy
SamplingKwargs ==
    {a @@ b @@ c @@ d :
        a \in Opt("width_fs", {2, 4}) \cup Opt("intensity_autocorr_fwhm_fs", {Some(6), Some(12)}),
        b \in Opt("shape", {"sech2"}),
        c \in Opt("n_samples", {1, 8}),
        d \in Opt("time_window_fs", {12, 24})}

\* mode "sampling": cfg holds the PulseSpec and the keyword arguments of the call
InitSampling ==
    /\ mode = "sampling"
    /\ \E kw \in SamplingKwargs :
          /\ ~PulseSpec(kw).raised
          /\ cfg \in [pulse : {PulseSpec(kw).value}, min_points_per_fwhm : {1, 2, 4},
                      strict : BOOLEAN]
    /\ policy = None
    /\ env = [matplotlib |-> TRUE, gnlse |-> TRUE]
    /\ run = "first"
    /\ pc = "input"
    /\ heap = <<>>
    /\ cur = 0
    /\ stages = <<>>
    /\ idx = 0
    /\ fs = {}
    /\ out_metrics = EmptyDict
    /\ result = None
    /\ error = None
    /\ log = <<>>
    /\ first = None
    /\ warned = <<>>

\* validate_pulse_sampling(pulse, min_points_per_fwhm=..., strict=...) raises
ValidateSamplingRaises ==
    /\ mode = "sampling" /\ pc = "input"
    /\ validate_pulse_sampling(cfg.pulse, cfg.min_points_per_fwhm, 3, 6, cfg.strict).raised
    /\ error' = Some(validate_pulse_sampling(cfg.pulse, cfg.min_points_per_fwhm, 3, 6,
                                             cfg.strict).error)
    /\ pc' = "failed"
    /\ UNCHANGED <<mode, cfg, policy, env, run, stages, idx, cur, heap, fs, out_metrics,
                   result, log, first, warned>>

\* validate_pulse_sampling(pulse, min_points_per_fwhm=..., strict=...) returns None
\* after its warnings
ValidateSamplingReturns ==
    /\ mode = "sampling" /\ pc = "input"
    /\ ~validate_pulse_sampling(cfg.pulse, cfg.min_points_per_fwhm, 3, 6, cfg.strict).raised
    /\ warned' = warned \o validate_pulse_sampling(cfg.pulse, cfg.min_points_per_fwhm, 3, 6,
                                                   cfg.strict).warnings
    /\ result' = Some("None")
    /\ pc' = "done"
    /\ UNCHANGED <<mode, cfg, policy, env, run, stages, idx, cur, heap, fs, out_metrics,
                   error, log, first>>

NextSampling == ValidateSamplingRaises \/ ValidateSamplingReturns

SpecSampling == InitSampling /\ [][NextSampling]_vars

\* the pulse is under-resolved against its resolved intensity FWHM
UnderResolved(c) ==
    dt_exceeds(c.pulse.time_window_fs, c.pulse.n_samples,
               resolve_intensity_fwhm_fs(c.pulse), c.min_points_per_fwhm)

\* the call reported the points-per-FWHM check, as the error or as a warning
ReportedUnderResolved ==
    \/ error = Some("ValueError: Pulse sampling policy violated: dt_fs must satisfy dt_fs <= width_fs / N_min.")
    \/ \E k \in 1..Len(warned) :
          warned[k] = "UserWarning: Pulse sampling policy violated: dt_fs must satisfy dt_fs <= width_fs / N_min."

\* C27: validate_pulse_sampling evaluates the points-per-FWHM check against the
\* resolved intensity FWHM of the pulse: for a pulse of at least two samples the
\* check is reported exactly when dt_fs exceeds the resolved FWHM over
\* min_points_per_fwhm; strict raises, otherwise the call only warns and returns
C27_SamplingAgainstResolvedFwhm ==
    (mode = "sampling" /\ pc # "input" /\ cfg.pulse.n_samples >= 2) =>
        /\ ReportedUnderResolved <=> UnderResolved(cfg)
        /\ (cfg.strict /\ UnderResolved(cfg)) => pc = "failed"
        /\ ~cfg.strict => (pc = "done" /\ error = None)

\* ---- amplification ratio: which input energy ----

\* the energy the laser generator of this run emitted
GeneratedEnergy == log[1].emitted[<<"laser", "energy_au">>]

\* C28: in a run of the pipeline the amplification ratio the metrics stage reports
\* is computed against the energy the laser generator of the same run emitted,
\* whatever the names of the stages in between
C28_RatioAgainstGeneratedEnergy ==
    (mode = "run_pipeline" /\ Len(log) >= 1 /\ log[1].cls = "AnalyticLaserGenStage"
       /\ ~log[1].raised) =>
        \A k \in 2..Len(log) :
           (log[k].cls = "StandardMetricsStage" /\ ~log[k].raised) =>
               /\ LaserEnergyOf(log[k].inVal) = GeneratedEnergy
               /\ log[k].emitted[<<"summary", "amplification_ratio">>]
                     = amplification_ratio(log[k].emitted[<<"summary", "energy_au">>],
                                           GeneratedEnergy)

\* ---- metric keys of different stages ----

\* the keys under which the pipeline records what the stage at entry e emitted
NamespacedKeys(e) == DOMAIN Namespaced("cpa", e.name, e.emitted)

\* C29: in a pipeline that build_pipeline accepted, the stage names are pairwise
\* distinct and the metrics of two different stages never share a key, neither
\* in the state's metrics nor in the pipeline's namespaced metrics
C29_DisjointMetricKeys ==
    (mode = "run_pipeline" /\ stages # <<>>) =>
        /\ \A i, j \in 1..Len(stages) : i # j => stages[i].name # stages[j].name
        /\ \A i, j \in 1..Len(log) :
              (log[i].pos # log[j].pos) =>
                 /\ DOMAIN log[i].emitted \cap DOMAIN log[j].emitted = {}
                 /\ NamespacedKeys(log[i]) \cap NamespacedKeys(log[j]) = {}

\* ---- metrics stage on a pulse without energy ----

\* the summary metrics that are 0 for a pulse without energy
ZeroForDarkPulse ==
    {"fwhm_fs", "ac_fwhm_fs", "bandwidth_rad_per_fs", "amplification_ratio",
     "temporal_shape_similarity", "spectral_shape_similarity"}

\* C30: in a run of an accepted configuration the metrics stage completes without
\* raising, also for a pulse of zero energy, for which it reports 0 for the
\* widths, the bandwidth, the amplification ratio and the similarity scores
C30_MetricsNeverRaise ==
    mode = "run_pipeline" =>
        \A k \in 1..Len(log) :
           log[k].cls = "StandardMetricsStage" =>
              /\ ~log[k].raised
              /\ Sum(log[k].inVal.pulse.intensity_t) = 0 =>
                    \A m \in ZeroForDarkPulse : log[k].emitted[<<"summary", m>>] = 0

====
